---- MODULE Spec2Model ----
(***************************************************************************)
(* Model of the outlier dashboard (tuxlimr/tabular_data_analyst):          *)
(*   utils/stats.ts            calculateStats, detectOutliers              *)
(*   services/geminiService.ts analyzeOutliersWithGemini                   *)
(*   components/AnalysisDashboard.tsx  the dashboard component, its two    *)
(*                             effects and its handlers (the same file     *)
(*                             also holds App and DataEditor)              *)
(*                                                                         *)
(* Numbers.  Under Spec, SpecDetect, SpecStats, SpecEdit, SpecPage and     *)
(* SpecInsight cell values are integers or texts and the statistics are    *)
(* computed in exact arithmetic: a                                         *)
(* mean and a variance are fractions, a standard deviation, a z-score and  *)
(* a z-distance are signed square roots of fractions (Root).  Under        *)
(* SpecDouble the cells are IEEE 754 doubles and every operation of        *)
(* utils/stats.ts rounds as the double operation does.                     *)
(* A threshold is held in tenths (2.5 is 25), the joint factor 1.4 as 14.  *)
(* Strings are sequences of one-character strings.                         *)
(***************************************************************************)
EXTENDS Integers, Sequences, FiniteSets, TLC

(***************************************************************************)
(* Bounds of the model                                                     *)
(***************************************************************************)
\* longest row list drawn for the pure-function specification SpecDetect
MaxRows == 5
\* longest column of values drawn for the specification SpecStats
MaxValues == 4
\* number of dataset changes (external replacements and committed cell
\* edits) explored per run
MaxChanges == 1

(***************************************************************************)
(* Program constants                                                       *)
(***************************************************************************)
DefaultThreshold == 25
SliderMin == 15
SliderMax == 40
JointFactor == 14
NormalSampleSize == 10
ROWS_PER_PAGE == 10

\* the field names of the modelled datasets
Keys == {"a", "b", "c"}

(***************************************************************************)
(* JavaScript values: DataRow cells are string | number | boolean | null,  *)
(* a missing key reads as undefined, Number() may give NaN or an infinity. *)
(***************************************************************************)
Num(n) == [t |-> "number", k |-> "fin", n |-> n, s |-> <<>>]
NaN == [t |-> "number", k |-> "nan", n |-> 0, s |-> <<>>]
\* Infinity and -Infinity
Infinity == [t |-> "number", k |-> "inf", n |-> 1, s |-> <<>>]
NegInfinity == [t |-> "number", k |-> "inf", n |-> 0 - 1, s |-> <<>>]
Str(cs) == [t |-> "string", k |-> "-", n |-> 0, s |-> cs]
Bool(b) == [t |-> "boolean", k |-> "-", n |-> IF b THEN 1 ELSE 0, s |-> <<>>]
Null == [t |-> "null", k |-> "-", n |-> 0, s |-> <<>>]
Undefined == [t |-> "undefined", k |-> "-", n |-> 0, s |-> <<>>]

typeof(v) == IF v.t = "null" THEN "object" ELSE v.t
isNaN(v) == v.t = "number" /\ v.k = "nan"

Digits == <<"0", "1", "2", "3", "4", "5", "6", "7", "8", "9">>
IsDigit(c) == \E i \in 1..10 : Digits[i] = c
DigitVal(c) == (CHOOSE i \in 1..10 : Digits[i] = c) - 1

RECURSIVE DigitsVal(_)
\* the value of a non-empty sequence of decimal digits
DigitsVal(cs) ==
  IF Len(cs) = 0 THEN 0
  ELSE 10 * DigitsVal(SubSeq(cs, 1, Len(cs) - 1)) + DigitVal(cs[Len(cs)])

AllDigits(cs) == Len(cs) > 0 /\ \A i \in 1..Len(cs) : IsDigit(cs[i])

InfinityText == <<"I", "n", "f", "i", "n", "i", "t", "y">>

\* Number(<string>) for the texts of the model, which are made of decimal
\* digits, a sign and letters and hold no exponent and no radix prefix: the
\* empty string is 0, an optionally signed decimal integer is its value,
\* an optionally signed "Infinity" is that infinity, any other text is NaN.
StringToNumber(cs) ==
  IF Len(cs) = 0 THEN Num(0)
  ELSE IF AllDigits(cs) THEN Num(DigitsVal(cs))
  ELSE IF cs[1] = "-" /\ AllDigits(Tail(cs)) THEN Num(0 - DigitsVal(Tail(cs)))
  ELSE IF cs[1] = "+" /\ AllDigits(Tail(cs)) THEN Num(DigitsVal(Tail(cs)))
  ELSE IF cs = InfinityText \/ cs = <<"+">> \o InfinityText THEN Infinity
  ELSE IF cs = <<"-">> \o InfinityText THEN NegInfinity
  ELSE NaN

\* Number(v), the coercion detectOutliers, calculateStats and saveEdit use
Number(v) ==
  CASE v.t = "number" -> v
    [] v.t = "string" -> StringToNumber(v.s)
    [] v.t = "boolean" -> Num(v.n)
    [] v.t = "null" -> Num(0)
    [] OTHER -> NaN

(***************************************************************************)
(* Exact arithmetic                                                        *)
(***************************************************************************)
Abs(i) == IF i < 0 THEN 0 - i ELSE i
Sign(i) == IF i < 0 THEN 0 - 1 ELSE IF i = 0 THEN 0 ELSE 1

RECURSIVE Gcd(_, _)
Gcd(i, j) == IF j = 0 THEN i ELSE Gcd(j, i % j)

\* A number as a fraction p/q in lowest terms with a positive denominator;
\* 1/0 and -1/0 are the infinities and 0/0 is NaN.  Rounding is not
\* modelled: the arithmetic is exact.
Frac(p, q) ==
  IF q = 0 THEN [num |-> Sign(p), den |-> 0]
  ELSE LET g == Gcd(Abs(p), Abs(q))
       IN [num |-> (Sign(q) * p) \div g, den |-> Abs(q) \div g]

NaNFrac == Frac(0, 0)
IsNaNFrac(f) == f.den = 0 /\ f.num = 0
IsInfFrac(f) == f.den = 0 /\ f.num # 0

FracNeg(f) == [num |-> 0 - f.num, den |-> f.den]
FracAdd(f, g) ==
  IF IsNaNFrac(f) \/ IsNaNFrac(g) THEN NaNFrac
  ELSE IF IsInfFrac(f) /\ IsInfFrac(g) THEN (IF f.num = g.num THEN f ELSE NaNFrac)
  ELSE IF IsInfFrac(f) THEN f
  ELSE IF IsInfFrac(g) THEN g
  ELSE Frac(f.num * g.den + g.num * f.den, f.den * g.den)
FracSub(f, g) == FracAdd(f, FracNeg(g))
FracMul(f, g) == Frac(f.num * g.num, f.den * g.den)
\* 1 / g
FracInv(g) ==
  IF g.den = 0 THEN (IF g.num = 0 THEN NaNFrac ELSE Frac(0, 1))
  ELSE IF g.num = 0 THEN Frac(1, 0)
  ELSE Frac(g.den, g.num)
FracDiv(f, g) == FracMul(f, FracInv(g))
\* f > g: false when either is NaN
FracGt(f, g) ==
  IF IsNaNFrac(f) \/ IsNaNFrac(g) THEN FALSE
  ELSE IF f.den = 0 \/ g.den = 0
       THEN (IF f.den = 0 /\ g.den = 0 THEN f.num > g.num
             ELSE IF f.den = 0 THEN f.num > 0
             ELSE g.num < 0)
  ELSE f.num * g.den > g.num * f.den

\* sgn * sqrt(sq): sq is a fraction >= 0 (or NaN), sgn is -1, 0 or 1
Root(sgn, sq) == [sgn |-> IF sq.num = 0 THEN 0 ELSE sgn, sq |-> sq]
Zero == Root(0, Frac(0, 1))
NaNRoot == Root(0, NaNFrac)

\* Math.sqrt of a fraction >= 0
Sqrt(f) == Root(1, f)
\* Math.pow(r, 2)
Square(r) == r.sq
\* Math.abs(r)
MathAbs(r) == Root(Abs(r.sgn), r.sq)
\* f / r for a fraction f and r # 0
DivByRoot(f, r) == Root(Sign(f.num) * r.sgn, FracDiv(FracMul(f, f), r.sq))
\* r > c for a root r and a finite fraction c: false when r is NaN
RootGt(r, c) ==
  CASE IsNaNFrac(r.sq) -> FALSE
    [] r.sgn >= 0 /\ c.num < 0 -> TRUE
    [] r.sgn >= 0 /\ c.num >= 0 -> FracGt(r.sq, FracMul(c, c))
    [] r.sgn < 0 /\ c.num >= 0 -> FALSE
    [] OTHER -> FracGt(FracMul(c, c), r.sq)

\* a threshold in tenths as a fraction; threshold * 1.4
ThresholdValue(threshold) == Frac(threshold, 10)
TimesJointFactor(threshold) == Frac(threshold * JointFactor, 100)

(***************************************************************************)
(* Sequence helpers (Array.map / filter / reduce / Math.min / Math.max)    *)
(***************************************************************************)
RECURSIVE SumFrac(_)
SumFrac(s) == IF Len(s) = 0 THEN Frac(0, 1) ELSE FracAdd(s[1], SumFrac(Tail(s)))

\* Math.min(...s) and Math.max(...s); of no argument they are Infinity and
\* -Infinity
SeqMin(s) ==
  IF Len(s) = 0 THEN Frac(1, 0)
  ELSE CHOOSE m \in {s[i] : i \in 1..Len(s)} : \A i \in 1..Len(s) : ~FracGt(m, s[i])
SeqMax(s) ==
  IF Len(s) = 0 THEN Frac(0 - 1, 0)
  ELSE CHOOSE m \in {s[i] : i \in 1..Len(s)} : \A i \in 1..Len(s) : ~FracGt(s[i], m)

(***************************************************************************)
(* utils/stats.ts                                                          *)
(***************************************************************************)
\* row[key]: a key the row does not hold reads as undefined
Get(row, key) == IF key \in DOMAIN row THEN row[key] ELSE Undefined

\* a number value (not NaN) as a fraction
ToFrac(v) == IF v.k = "inf" THEN Frac(v.n, 0) ELSE Frac(v.n, 1)

\* the filter of line 6: val => !isNaN(val)
Retained(val) == ~isNaN(val)

\* data.map(row => Number(row[key])).filter(val => !isNaN(val))
NumericValues(data, key) ==
  LET coerced == [i \in 1..Len(data) |-> Number(Get(data[i], key))]
      kept == SelectSeq(coerced, Retained)
  IN [i \in 1..Len(kept) |-> IF isNaN(kept[i]) THEN NaNFrac ELSE ToFrac(kept[i])]

\* the test of line 8 never taken
NoValuesNever(values) == FALSE

\* values.length === 0
NoValues(values) == Len(values) = 0

\* the sum of the squared deviations divided by n - 1
SampleVariance(values, mean) ==
  LET sq == [i \in 1..Len(values) |->
               LET d == FracSub(values[i], mean) IN FracMul(d, d)]
  IN FracDiv(SumFrac(sq), Frac(Len(values) - 1, 1))

\* line 12: the sum of the squared deviations divided by values.length
Variance(values, mean) ==
  LET sq == [i \in 1..Len(values) |->
               LET d == FracSub(values[i], mean) IN FracMul(d, d)]
  IN FracDiv(SumFrac(sq), Frac(Len(values), 1))

calculateStats(data, key) ==
  LET values == NumericValues(data, key)
  IN IF NoValues(values)
     THEN [mean |-> Frac(0, 1), stdDev |-> Zero, min |-> Frac(0, 1), max |-> Frac(0, 1)]
     ELSE LET sum == SumFrac(values)
              mean == FracDiv(sum, Frac(Len(values), 1))
              variance == Variance(values, mean)
              stdDev == Sqrt(variance)
          IN [mean |-> mean, stdDev |-> stdDev,
              min |-> SeqMin(values), max |-> SeqMax(values)]

\* a z-score that takes a value that is not a number as 0
zScoreOfZero(val, stats) ==
  IF stats.stdDev # Zero
  THEN DivByRoot(FracSub(IF isNaN(val) THEN Frac(0, 1) ELSE ToFrac(val), stats.mean),
                 stats.stdDev)
  ELSE Zero

\* the z-score of one coerced value: 0 unless the value is a number and
\* the standard deviation is not 0
zScore(val, stats) ==
  IF ~isNaN(val) /\ stats.stdDev # Zero
  THEN DivByRoot(FracSub(ToFrac(val), stats.mean), stats.stdDev)
  ELSE Zero

\* Math.sqrt(Math.pow(zScoreX, 2) + Math.pow(zScoreY, 2))
zDistance(zScoreX, zScoreY) == Sqrt(FracAdd(Square(zScoreX), Square(zScoreY)))

\* the test of line 50 without its joint-distance disjunct
IsOutlierAxisOnly(zScoreX, zScoreY, threshold) ==
  \/ RootGt(MathAbs(zScoreX), ThresholdValue(threshold))
  \/ RootGt(MathAbs(zScoreY), ThresholdValue(threshold))

\* the test of line 50 with its comparisons turned round
IsOutlierBelow(zScoreX, zScoreY, threshold) ==
  \/ RootGt(Sqrt(FracMul(ThresholdValue(threshold), ThresholdValue(threshold))),
            FracMul(Frac(MathAbs(zScoreX).sgn, 1), MathAbs(zScoreX).sq))
  \/ FracGt(FracMul(ThresholdValue(threshold), ThresholdValue(threshold)), Square(zScoreY))
  \/ FracGt(FracMul(TimesJointFactor(threshold), TimesJointFactor(threshold)),
            Square(zDistance(zScoreX, zScoreY)))

\* the test of line 50
IsOutlier(zScoreX, zScoreY, threshold) ==
  \/ RootGt(MathAbs(zScoreX), ThresholdValue(threshold))
  \/ RootGt(MathAbs(zScoreY), ThresholdValue(threshold))
  \/ RootGt(zDistance(zScoreX, zScoreY), TimesJointFactor(threshold))

\* the pushed object with xKey and yKey set to 0 when the value is NaN
OverwriteNaNAsZero(row, xKey, yKey, xVal, yVal) ==
  [key \in DOMAIN row \cup {xKey, yKey} |->
     IF key = yKey THEN (IF isNaN(yVal) THEN Num(0) ELSE yVal)
     ELSE IF key = xKey THEN (IF isNaN(xVal) THEN Num(0) ELSE xVal)
     ELSE row[key]]

\* lines 55-63, the fields of the pushed object that come from the row: the
\* spread keeps the row's fields; xKey and yKey are overwritten by the
\* coerced values (yKey last)
Overwrite(row, xKey, yKey, xVal, yVal) ==
  [key \in DOMAIN row \cup {xKey, yKey} |->
     IF key = yKey THEN yVal ELSE IF key = xKey THEN xVal ELSE row[key]]

\* one pass of the forEach body: the entry pushed on processedData
ScoreRow(row, xKey, yKey, xStats, yStats, threshold) ==
  LET xVal == Number(Get(row, xKey))
      yVal == Number(Get(row, yKey))
      zX == zScore(xVal, xStats)
      zY == zScore(yVal, yStats)
  IN [row |-> Overwrite(row, xKey, yKey, xVal, yVal),
      isOutlier |-> IsOutlier(zX, zY, threshold),
      zScoreX |-> zX,
      zScoreY |-> zY]

\* outlierIndices.unshift(index)
Unshift(indices, index) == <<index>> \o indices

\* outlierIndices.push(index)
Push(indices, index) == Append(indices, index)

RECURSIVE CollectIndices(_, _)
\* the indices (0-based, as in the source) pushed by the first n passes
CollectIndices(processed, n) ==
  IF n = 0 THEN <<>>
  ELSE IF processed[n].isOutlier
       THEN Push(CollectIndices(processed, n - 1), n - 1)
       ELSE CollectIndices(processed, n - 1)

detectOutliers(data, xKey, yKey, threshold) ==
  LET xStats == calculateStats(data, xKey)
      yStats == calculateStats(data, yKey)
      processedData ==
        [i \in 1..Len(data) |-> ScoreRow(data[i], xKey, yKey, xStats, yStats, threshold)]
  IN [processedData |-> processedData,
      outlierIndices |-> CollectIndices(processedData, Len(data))]

(***************************************************************************)
(* JavaScript numbers as IEEE 754 doubles.  The operators above compute    *)
(* with exact fractions and leave the rounding of the double operations    *)
(* out; the operators below round every result to SignificandBits bits, to *)
(* the nearest value and to the even one on a tie, as the double           *)
(* operations do.  A natural number is the sequence of its digits in base  *)
(* LimbBase, least significant first, without leading zeros.  Exponents    *)
(* are not limited and there are no infinities or NaN here: the values     *)
(* that occur are finite, far from overflow and from the subnormal range.  *)
(***************************************************************************)
SignificandBits == 53
LimbBits == 15
LimbBase == 2 ^ LimbBits

RECURSIVE Trim(_)
Trim(a) == IF a = <<>> \/ a[Len(a)] # 0 THEN a ELSE Trim(SubSeq(a, 1, Len(a) - 1))

LimbAt(a, i) == IF i <= Len(a) THEN a[i] ELSE 0

RECURSIVE NatOf(_)
NatOf(n) == IF n = 0 THEN <<>> ELSE <<n % LimbBase>> \o NatOf(n \div LimbBase)

RECURSIVE AddFrom(_, _, _, _)
AddFrom(a, b, i, carry) ==
  IF i > Len(a) /\ i > Len(b)
  THEN (IF carry = 0 THEN <<>> ELSE <<carry>>)
  ELSE LET s == LimbAt(a, i) + LimbAt(b, i) + carry
       IN <<s % LimbBase>> \o AddFrom(a, b, i + 1, s \div LimbBase)

NatAdd(a, b) == AddFrom(a, b, 1, 0)

\* a - b for a >= b
RECURSIVE SubFrom(_, _, _, _)
SubFrom(a, b, i, borrow) ==
  IF i > Len(a)
  THEN <<>>
  ELSE LET d == LimbAt(a, i) - LimbAt(b, i) - borrow
       IN <<d % LimbBase>> \o SubFrom(a, b, i + 1, IF d < 0 THEN 1 ELSE 0)

NatSub(a, b) == Trim(SubFrom(a, b, 1, 0))

RECURSIVE LessFrom(_, _, _)
LessFrom(a, b, i) ==
  IF i = 0 THEN FALSE
  ELSE IF a[i] # b[i] THEN a[i] < b[i]
  ELSE LessFrom(a, b, i - 1)

NatLess(a, b) ==
  IF Len(a) # Len(b) THEN Len(a) < Len(b) ELSE LessFrom(a, b, Len(a))

\* a * d for a digit d
RECURSIVE TimesFrom(_, _, _, _)
TimesFrom(a, d, i, carry) ==
  IF i > Len(a)
  THEN (IF carry = 0 THEN <<>> ELSE <<carry>>)
  ELSE LET s == a[i] * d + carry
       IN <<s % LimbBase>> \o TimesFrom(a, d, i + 1, s \div LimbBase)

NatTimes(a, d) == IF d = 0 THEN <<>> ELSE TimesFrom(a, d, 1, 0)

\* a * LimbBase^k
ShiftLimbs(a, k) == IF a = <<>> THEN <<>> ELSE [i \in 1..k |-> 0] \o a

RECURSIVE NatMul(_, _)
NatMul(a, b) ==
  IF b = <<>> THEN <<>>
  ELSE NatAdd(NatTimes(a, Head(b)), ShiftLimbs(NatMul(a, Tail(b)), 1))

\* the number of bits of a digit and of a natural number
DigitBits(d) == CHOOSE k \in 0..LimbBits : d < 2 ^ k /\ (k = 0 \/ d >= 2 ^ (k - 1))
BitLen(a) == IF a = <<>> THEN 0 ELSE (Len(a) - 1) * LimbBits + DigitBits(a[Len(a)])

\* a * 2^k and a divided by 2^k, rounded down
ShiftLeft(a, k) == ShiftLimbs(NatTimes(a, 2 ^ (k % LimbBits)), k \div LimbBits)
ShiftRight(a, k) ==
  LET limbs == k \div LimbBits
      bits == k % LimbBits
  IN Trim([i \in 1..(Len(a) - limbs) |->
             (a[i + limbs] \div 2 ^ bits)
               + (LimbAt(a, i + limbs + 1) % 2 ^ bits) * 2 ^ (LimbBits - bits)])

\* bit i of a, counting from 1 at the least significant bit
BitAt(a, i) == (LimbAt(a, (i - 1) \div LimbBits + 1) \div 2 ^ ((i - 1) % LimbBits)) % 2

\* the largest digit q with q * b <= r, for r < b * LimbBase, found five bits
\* at a time: the multiples of b grow, so the number of those that are not
\* above r is the largest factor
QuotientStep(r, b, q, unit) ==
  Cardinality({d \in 1..31 : ~NatLess(r, NatTimes(b, q + d * unit))})

QuotientDigit(r, b) ==
  LET q1 == 1024 * QuotientStep(r, b, 0, 1024)
      q2 == q1 + 32 * QuotientStep(r, b, q1, 32)
  IN q2 + QuotientStep(r, b, q2, 1)

\* one step of long division: the quotient and remainder so far, the next
\* digit of the dividend below them, and the divisor
DivStep(high, digit, b) ==
  IF high.rem = <<>> /\ digit = 0
  THEN [quot |-> Trim(<<0>> \o high.quot), rem |-> <<>>]
  ELSE LET r == Trim(<<digit>> \o high.rem)
           q == QuotientDigit(r, b)
       IN [quot |-> Trim(<<q>> \o high.quot), rem |-> NatSub(r, NatTimes(b, q))]

\* long division: quotient and remainder of the number made of the digits of
\* a from position i up
RECURSIVE DivFrom(_, _, _)
DivFrom(a, b, i) ==
  IF i > Len(a)
  THEN [quot |-> <<>>, rem |-> <<>>]
  ELSE DivStep(DivFrom(a, b, i + 1), a[i], b)

NatDivMod(a, b) == IF NatLess(a, b) THEN [quot |-> <<>>, rem |-> a] ELSE DivFrom(a, b, 1)

\* Newton's iteration for the integer square root, from a start above it
RECURSIVE SqrtFrom(_, _)
SqrtFrom(a, x) ==
  LET y == ShiftRight(NatAdd(x, NatDivMod(a, x).quot), 1)
  IN IF NatLess(y, x) THEN SqrtFrom(a, y) ELSE x

NatSqrt(a) ==
  IF a = <<>> THEN [root |-> <<>>, rem |-> <<>>]
  ELSE LET root == SqrtFrom(a, ShiftLeft(<<1>>, (BitLen(a) + 1) \div 2))
       IN [root |-> root, rem |-> NatSub(a, NatMul(root, root))]

\* a double: sgn * m * 2^e, where m has SignificandBits bits or is zero
DoubleZero == [sgn |-> 1, m |-> <<>>, e |-> 0]

\* the double nearest to sgn * mag * 2^exp, or to a value just above it in
\* magnitude when inexact holds (mag then has bits to spare); ties go to the
\* even significand
RoundToDouble(sgn, mag, exp, inexact) ==
  IF mag = <<>> THEN DoubleZero
  ELSE IF BitLen(mag) <= SignificandBits
  THEN [sgn |-> sgn, m |-> ShiftLeft(mag, SignificandBits - BitLen(mag)),
        e |-> exp - (SignificandBits - BitLen(mag))]
  ELSE LET k == BitLen(mag) - SignificandBits
           kept == ShiftRight(mag, k)
           below == inexact \/ \E i \in 1..(k - 1) : BitAt(mag, i) = 1
           up == BitAt(mag, k) = 1 /\ (below \/ BitAt(kept, 1) = 1)
           r == IF up THEN NatAdd(kept, <<1>>) ELSE kept
       IN IF BitLen(r) > SignificandBits
          THEN [sgn |-> sgn, m |-> ShiftRight(r, 1), e |-> exp + k + 1]
          ELSE [sgn |-> sgn, m |-> r, e |-> exp + k]

\* a whole number as a double
DoubleOf(n) == RoundToDouble(IF n < 0 THEN 0 - 1 ELSE 1, NatOf(IF n < 0 THEN 0 - n ELSE n), 0, FALSE)

DoubleNeg(x) == IF x.m = <<>> THEN x ELSE [x EXCEPT !.sgn = 0 - x.sgn]
DoubleAbs(x) == [x EXCEPT !.sgn = 1]

\* x + y
DoubleAdd(x, y) ==
  IF x.m = <<>> THEN y
  ELSE IF y.m = <<>> THEN x
  ELSE LET exp == IF x.e < y.e THEN x.e ELSE y.e
           mx == ShiftLeft(x.m, x.e - exp)
           my == ShiftLeft(y.m, y.e - exp)
       IN IF x.sgn = y.sgn THEN RoundToDouble(x.sgn, NatAdd(mx, my), exp, FALSE)
          ELSE IF mx = my THEN DoubleZero
          ELSE IF NatLess(mx, my) THEN RoundToDouble(y.sgn, NatSub(my, mx), exp, FALSE)
          ELSE RoundToDouble(x.sgn, NatSub(mx, my), exp, FALSE)

\* x - y
DoubleSub(x, y) == DoubleAdd(x, DoubleNeg(y))

\* x * y
DoubleMul(x, y) == RoundToDouble(x.sgn * y.sgn, NatMul(x.m, y.m), x.e + y.e, FALSE)

\* x / y for y other than zero
DoubleDiv(x, y) ==
  IF x.m = <<>> THEN DoubleZero
  ELSE LET d == NatDivMod(ShiftLeft(x.m, SignificandBits + 2), y.m)
       IN RoundToDouble(x.sgn * y.sgn, d.quot, x.e - y.e - (SignificandBits + 2), d.rem # <<>>)

\* Math.sqrt(x) for x that is not negative
DoubleSqrt(x) ==
  IF x.m = <<>> THEN DoubleZero
  ELSE LET odd == x.e % 2 = 1
           m == IF odd THEN ShiftLeft(x.m, 1) ELSE x.m
           e == IF odd THEN x.e - 1 ELSE x.e
           s == (SignificandBits + 4) \div 2
           r == NatSqrt(ShiftLeft(m, 2 * s))
       IN RoundToDouble(1, r.root, (e \div 2) - s, r.rem # <<>>)

\* x > y
DoubleGt(x, y) == LET d == DoubleSub(x, y) IN d.m # <<>> /\ d.sgn = 1

\* the double a decimal literal num/den denotes (den a power of ten)
Decimal(num, den) == DoubleDiv(DoubleOf(num), DoubleOf(den))

(***************************************************************************)
(* utils/stats.ts computed with doubles.  The cells are numbers; a number  *)
(* holds its double in the field n.                                        *)
(***************************************************************************)
NumDouble(d) == [t |-> "number", k |-> "fin", n |-> d, s |-> <<>>]

\* data.map(row => Number(row[key])).filter(val => !isNaN(val))
DoubleValues(data, key) ==
  LET coerced == [i \in 1..Len(data) |-> Number(Get(data[i], key))]
      kept == SelectSeq(coerced, Retained)
  IN [i \in 1..Len(kept) |-> kept[i].n]

\* values.reduce((acc, val) => acc + val, 0) over the first n values
RECURSIVE DoubleSum(_, _)
DoubleSum(values, n) ==
  IF n = 0 THEN DoubleZero ELSE DoubleAdd(DoubleSum(values, n - 1), values[n])

\* Math.pow(x, 2)
DoublePow2(x) == DoubleMul(x, x)

\* values.reduce((acc, val) => acc + Math.pow(val - mean, 2), 0) over the
\* first n values
RECURSIVE DoubleSquares(_, _, _)
DoubleSquares(values, mean, n) ==
  IF n = 0 THEN DoubleZero
  ELSE DoubleAdd(DoubleSquares(values, mean, n - 1), DoublePow2(DoubleSub(values[n], mean)))

\* Math.min(...values) and Math.max(...values) of at least one value
DoubleMin(values) ==
  CHOOSE m \in {values[i] : i \in 1..Len(values)} : \A i \in 1..Len(values) : ~DoubleGt(m, values[i])
DoubleMax(values) ==
  CHOOSE m \in {values[i] : i \in 1..Len(values)} : \A i \in 1..Len(values) : ~DoubleGt(values[i], m)

\* calculateStats
calculateStatsDouble(data, key) ==
  LET values == DoubleValues(data, key)
  IN IF NoValues(values)
     THEN [mean |-> DoubleZero, stdDev |-> DoubleZero, min |-> DoubleZero, max |-> DoubleZero]
     ELSE LET sum == DoubleSum(values, Len(values))
              mean == DoubleDiv(sum, DoubleOf(Len(values)))
              variance == DoubleDiv(DoubleSquares(values, mean, Len(values)), DoubleOf(Len(values)))
              stdDev == DoubleSqrt(variance)
          IN [mean |-> mean, stdDev |-> stdDev,
              min |-> DoubleMin(values), max |-> DoubleMax(values)]

\* lines 36-44: the z-score of one coerced value
zScoreDouble(val, stats) ==
  IF ~isNaN(val) /\ stats.stdDev # DoubleZero
  THEN DoubleDiv(DoubleSub(val.n, stats.mean), stats.stdDev)
  ELSE DoubleZero

\* line 48
zDistanceDouble(zScoreX, zScoreY) ==
  DoubleSqrt(DoubleAdd(DoublePow2(zScoreX), DoublePow2(zScoreY)))

\* the test of line 50, for a threshold in tenths
IsOutlierDouble(zScoreX, zScoreY, threshold) ==
  \/ DoubleGt(DoubleAbs(zScoreX), Decimal(threshold, 10))
  \/ DoubleGt(DoubleAbs(zScoreY), Decimal(threshold, 10))
  \/ DoubleGt(zDistanceDouble(zScoreX, zScoreY),
              DoubleMul(Decimal(threshold, 10), Decimal(JointFactor, 10)))

\* lines 31-63 for one row
ScoreRowDouble(row, xKey, yKey, xStats, yStats, threshold) ==
  LET xVal == Number(Get(row, xKey))
      yVal == Number(Get(row, yKey))
      zX == zScoreDouble(xVal, xStats)
      zY == zScoreDouble(yVal, yStats)
  IN [row |-> Overwrite(row, xKey, yKey, xVal, yVal),
      isOutlier |-> IsOutlierDouble(zX, zY, threshold),
      zScoreX |-> zX,
      zScoreY |-> zY]

\* lines 28-64: every row scored with the statistics of lines 25-26
ProcessedDouble(data, xKey, yKey, xStats, yStats, threshold) ==
  [i \in 1..Len(data) |-> ScoreRowDouble(data[i], xKey, yKey, xStats, yStats, threshold)]

\* line 66
ReturnedDouble(processedData, n) ==
  [processedData |-> processedData, outlierIndices |-> CollectIndices(processedData, n)]

\* detectOutliers
detectOutliersDouble(data, xKey, yKey, threshold) ==
  ReturnedDouble(ProcessedDouble(data, xKey, yKey, calculateStatsDouble(data, xKey),
                                 calculateStatsDouble(data, yKey), threshold),
                 Len(data))

(***************************************************************************)
(* Datasets (types: DataRow, Dataset)                                      *)
(***************************************************************************)
\* a row holding a, b and c
Row3(a, b, c) == [key \in Keys |-> CASE key = "a" -> a [] key = "b" -> b [] OTHER -> c]

X == Str(<<"x">>)

\* a and b numeric; the last row is far from the others on a
TwoNumeric ==
  [name |-> "two", columns |-> <<"a", "b">>,
   data |-> <<Row3(Num(0), Num(1), Undefined), Row3(Num(0), Num(2), Undefined),
              Row3(Num(0), Num(1), Undefined), Row3(Num(4), Num(2), Undefined)>>]
\* b and c numeric, a absent
OtherNumeric ==
  [name |-> "other", columns |-> <<"b", "c">>,
   data |-> <<Row3(Undefined, Num(1), Num(3)), Row3(Undefined, Num(2), Null)>>]
\* only c numeric
OneNumeric ==
  [name |-> "one", columns |-> <<"a", "c">>,
   data |-> <<Row3(X, Undefined, Num(1))>>]
\* no numeric column
NoNumeric ==
  [name |-> "text", columns |-> <<"a">>,
   data |-> <<Row3(X, Undefined, Undefined)>>]
\* a column list and no rows: the Dataset type admits it, and numericColumns
\* and the analysis effect test for it (DataSource hands over rows only)
NoRows == [name |-> "empty", columns |-> <<"a", "b">>, data |-> <<>>]

\* the datasets handed to the dashboard by its parent
Datasets == {TwoNumeric, OtherNumeric, OneNumeric, NoNumeric, NoRows}

\* the positions of the range slider the model explores (min and default)
ThresholdChoices == {SliderMin, DefaultThreshold}

\* the texts typed into a cell's input
EditTexts == {<<"7">>, <<"a", "b", "c">>}

(***************************************************************************)
(* State                                                                   *)
(***************************************************************************)
VARIABLES
  dataset,         \* App: the dataset state, the dashboard's dataset prop
  xKey, yKey,      \* AnalysisDashboard: the selected axes ("" when none)
  threshold,       \* AnalysisDashboard: the sensitivity, in tenths
  analysisResult,  \* AnalysisDashboard: the scored result or null
  aiInsight,       \* AnalysisDashboard: the cached insight or null
  aiLoading,       \* AnalysisDashboard: a request is outstanding
  activeTab,       \* AnalysisDashboard: "analysis" or "data"
  pendingEffects,  \* effects whose dependencies changed in the last render
  apiKey,          \* geminiService: process.env.API_KEY is defined
  inflight,        \* geminiService: the prompts of the calls not yet answered
  localData,       \* DataEditor: the working copy of the rows
  editingCell,     \* DataEditor: the cell being edited or null
  editValue,       \* DataEditor: the edit buffer
  currentPage,     \* DataEditor: the page shown (counts from 1)
  searchTerm,      \* DataEditor: the text of the search box
  nChanges         \* how many times the run has changed the dataset

dashVars == <<xKey, yKey, threshold, analysisResult, aiInsight, aiLoading, activeTab>>
serviceVars == <<apiKey, inflight>>
pageVars == <<currentPage, searchTerm>>
editorVars == <<localData, editingCell, editValue, pageVars>>
countVars == <<nChanges>>
vars == <<dataset, dashVars, pendingEffects, serviceVars, editorVars, countVars>>

\* analysisResult: null, or the object detectOutliers returned
NoResult == [present |-> FALSE, processedData |-> <<>>, outlierIndices |-> <<>>]
Result(r) ==
  [present |-> TRUE, processedData |-> r.processedData, outlierIndices |-> r.outlierIndices]

\* editingCell: null, or {rowIndex, colKey} (rowIndex counts from 0)
NoCell == [present |-> FALSE, rowIndex |-> 0, colKey |-> ""]
Cell(rowIndex, colKey) == [present |-> TRUE, rowIndex |-> rowIndex, colKey |-> colKey]

(***************************************************************************)
(* services/geminiService.ts                                               *)
(***************************************************************************)
Includes(seq, e) == \E i \in 1..Len(seq) : seq[i] = e

\* indices 1..Len(data) of the rows whose 0-based index is not an outlier index
RECURSIVE NormalRows(_, _, _)
NormalRows(dataSample, outlierIndices, from) ==
  IF from > Len(dataSample) THEN <<>>
  ELSE (IF Includes(outlierIndices, from - 1) THEN <<>> ELSE <<dataSample[from]>>)
       \o NormalRows(dataSample, outlierIndices, from + 1)

\* Array.prototype.slice(0, n) without its end
SliceAll(seq, n) == seq

\* Array.prototype.slice(0, n)
Slice(seq, n) == SubSeq(seq, 1, IF Len(seq) < n THEN Len(seq) ELSE n)

\* dataSample[i] for a 0-based i; an index past the end reads as undefined,
\* held here as a row with no field
NoRow == [key \in {} |-> Undefined]
At(dataSample, i) == IF i + 1 \in 1..Len(dataSample) THEN dataSample[i + 1] ELSE NoRow

\* what the prompt is built from: the column names, the two axes, the rows
\* at the outlier indices and the first ten other rows
Prompt(dataSample, columns, outlierIndices, xAxis, yAxis) ==
  [columns |-> columns, xAxis |-> xAxis, yAxis |-> yAxis,
   outliers |-> [j \in 1..Len(outlierIndices) |-> At(dataSample, outlierIndices[j])],
   normalSample |-> Slice(NormalRows(dataSample, outlierIndices, 1), NormalSampleSize)]

NoPrompt == [columns |-> <<>>, xAxis |-> "", yAxis |-> "", outliers |-> <<>>, normalSample |-> <<>>]

\* aiInsight: null, or {summary, outlierAnalysis, actionableInsights}.  The
\* model's answer is commentary about the prompt it was given (about).
NoInsight ==
  [present |-> FALSE, summary |-> "", outlierAnalysis |-> "",
   actionableInsights |-> <<>>, about |-> NoPrompt]
KeyMissingInsight ==
  [present |-> TRUE, summary |-> "API Key missing. Cannot generate AI insights.",
   outlierAnalysis |-> "Please check your configuration.",
   actionableInsights |-> <<>>, about |-> NoPrompt]
FailedInsight ==
  [present |-> TRUE, summary |-> "Failed to generate analysis.",
   outlierAnalysis |-> "An error occurred while communicating with the AI model.",
   actionableInsights |-> <<"Try again later.">>, about |-> NoPrompt]
\* JSON.parse(response.text) of a well-formed answer
ModelAnswer(prompt) ==
  [present |-> TRUE, summary |-> "summary", outlierAnalysis |-> "analysis",
   actionableInsights |-> <<"1", "2", "3">>, about |-> prompt]

\* how a call to the model can end: an answer, a rejected call, an empty
\* response text, a text JSON.parse rejects
Outcomes == {"ok", "error", "empty", "unparsable"}

\* analyzeOutliersWithGemini with a catch block that returns nothing
analyzeOutliersNoFallback(keyDefined, prompt, outcome) ==
  IF ~keyDefined THEN KeyMissingInsight
  ELSE IF outcome = "ok" THEN ModelAnswer(prompt)
  ELSE NoInsight

\* the value the promise of analyzeOutliersWithGemini resolves with
analyzeOutliersWithGemini(keyDefined, prompt, outcome) ==
  IF ~keyDefined THEN KeyMissingInsight
  ELSE IF outcome = "ok" THEN ModelAnswer(prompt)
  ELSE FailedInsight

RemoveAt(seq, i) == SubSeq(seq, 1, i - 1) \o SubSeq(seq, i + 1, Len(seq))

(***************************************************************************)
(* components/AnalysisDashboard.tsx: AnalysisDashboard                     *)
(***************************************************************************)
\* the numeric columns by a scan of each column for its first value that is
\* neither null nor undefined
numericColumnsByScan(ds) ==
  SelectSeq(ds.columns,
            LAMBDA key :
              \E i \in 1..Len(ds.data) :
                /\ typeof(Get(ds.data[i], key)) = "number"
                /\ \A j \in 1..(i - 1) : Get(ds.data[j], key) \in {Null, Undefined})

\* lines 20-26.  data.find(r => r !== undefined && r !== null) is the first
\* row: every element of data is an object (DataSource reads the keys of
\* the first row, and detectOutliers reads a field of every row).
numericColumns(ds) ==
  IF Len(ds.data) = 0 THEN <<>>
  ELSE LET firstRow == ds.data[1]
       IN SelectSeq(ds.columns, LAMBDA key : typeof(Get(firstRow, key)) = "number")

\* useState initial values of xKey and yKey
InitialX(nc) == IF Len(nc) >= 1 THEN nc[1] ELSE ""
InitialY(nc) == IF Len(nc) >= 2 THEN nc[2] ELSE IF Len(nc) >= 1 THEN nc[1] ELSE ""

\* the axis repair effect falling back to the first numeric column for yKey
RepairedYFirst(nc, y) == IF Len(nc) > 0 /\ ~Includes(nc, y) THEN nc[1] ELSE y

\* the axis repair effect: the keys it leaves selected
RepairedX(nc, x) == IF Len(nc) > 0 /\ ~Includes(nc, x) THEN nc[1] ELSE x
RepairedY(nc, y) ==
  IF Len(nc) > 0 /\ ~Includes(nc, y)
  THEN (IF Len(nc) >= 2 THEN nc[2] ELSE nc[1])
  ELSE y

\* the analysis effect's condition without its test of the row count
AnalysisGuardNoLength(ds, x, y) == x # "" /\ y # ""

\* the analysis effect's condition: xKey && yKey && dataset.data.length > 0
AnalysisGuard(ds, x, y) == x # "" /\ y # "" /\ Len(ds.data) > 0

\* the analysis effect without its setAiInsight(null)
InsightKept(analyse, insight) == insight

\* the analysis effect's setAiInsight(null), when the effect's body runs
InsightAfterAnalysis(analyse, insight) == IF analyse THEN NoInsight ELSE insight

\* an analysis effect that does not depend on xKey and yKey
NoEffectsAfterRepair(x, y, newX, newY) == {}

\* the effects to run after the state updates made by the effects themselves:
\* the analysis effect depends on xKey and yKey
EffectsAfterRepair(x, y, newX, newY) ==
  IF newX # x \/ newY # y THEN {"analysis"} ELSE {}

\* the analysis panel (selects, slider, insight panel) is rendered
PanelRendered == activeTab = "analysis" /\ Len(numericColumns(dataset)) >= 2

\* the Generate Insights button without its disabled attribute
InsightButtonNeverDisabled(insight, loading) == ~insight.present

\* the Generate Insights button is rendered and not disabled
InsightButtonEnabled(insight, loading) == ~insight.present /\ ~loading

Quiescent == pendingEffects = {}

\* DataEditor without its sync effect
LocalDataNotSynced(pending, tab, data, local) == local

\* DataEditor's sync effect, setLocalData(data), run when the data prop has
\* changed while the editor is mounted
SyncedLocalData(pending, tab, data, local) ==
  IF "sync" \in pending /\ tab = "data" THEN data ELSE local

Init ==
  /\ dataset \in Datasets
  /\ xKey = InitialX(numericColumns(dataset))
  /\ yKey = InitialY(numericColumns(dataset))
  /\ threshold = DefaultThreshold
  /\ analysisResult = NoResult
  /\ aiInsight = NoInsight
  /\ aiLoading = FALSE
  /\ activeTab = "analysis"
  /\ pendingEffects = {"repair", "analysis"}
  /\ apiKey \in BOOLEAN
  /\ inflight = <<>>
  /\ localData = <<>>
  /\ editingCell = NoCell
  /\ editValue = <<>>
  /\ currentPage = 1
  /\ searchTerm = <<>>
  /\ nChanges = 0

\* One flush of the passive effects of a commit, in order: DataEditor's sync
\* effect, the axis repair effect, the analysis effect.  The effects read the
\* values of the render they belong to; their state updates are applied
\* together afterwards.
RunEffects ==
  /\ pendingEffects # {}
  /\ LET nc == numericColumns(dataset)
         newX == IF "repair" \in pendingEffects THEN RepairedX(nc, xKey) ELSE xKey
         newY == IF "repair" \in pendingEffects THEN RepairedY(nc, yKey) ELSE yKey
         analyse == "analysis" \in pendingEffects /\ AnalysisGuard(dataset, xKey, yKey)
     IN /\ xKey' = newX
        /\ yKey' = newY
        /\ analysisResult' =
             IF analyse THEN Result(detectOutliers(dataset.data, xKey, yKey, threshold))
             ELSE analysisResult
        /\ aiInsight' = InsightAfterAnalysis(analyse, aiInsight)
        /\ localData' = SyncedLocalData(pendingEffects, activeTab, dataset.data, localData)
        /\ pendingEffects' = EffectsAfterRepair(xKey, yKey, newX, newY)
  /\ UNCHANGED <<dataset, threshold, aiLoading, activeTab, serviceVars,
                 editingCell, editValue, pageVars, countVars>>

\* the X Axis select
SetXKey(key) ==
  /\ Quiescent /\ PanelRendered
  /\ Includes(numericColumns(dataset), key) /\ key # xKey
  /\ xKey' = key
  /\ pendingEffects' = {"analysis"}
  /\ UNCHANGED <<dataset, yKey, threshold, analysisResult, aiInsight, aiLoading,
                 activeTab, serviceVars, editorVars, countVars>>

\* the Y Axis select
SetYKey(key) ==
  /\ Quiescent /\ PanelRendered
  /\ Includes(numericColumns(dataset), key) /\ key # yKey
  /\ yKey' = key
  /\ pendingEffects' = {"analysis"}
  /\ UNCHANGED <<dataset, xKey, threshold, analysisResult, aiInsight, aiLoading,
                 activeTab, serviceVars, editorVars, countVars>>

\* the Sensitivity slider
SetThreshold(t) ==
  /\ Quiescent /\ PanelRendered
  /\ t # threshold
  /\ threshold' = t
  /\ pendingEffects' = {"analysis"}
  /\ UNCHANGED <<dataset, xKey, yKey, analysisResult, aiInsight, aiLoading,
                 activeTab, serviceVars, editorVars, countVars>>

\* handleGeminiAnalysis past its first line, up to its await.  Without an API
\* key the promise is already resolved and the rest of the handler runs
\* before any other event.
StartInsight ==
  /\ LET prompt == Prompt(dataset.data, dataset.columns,
                          analysisResult.outlierIndices, xKey, yKey)
     IN IF apiKey
        THEN /\ inflight' = Append(inflight, prompt)
             /\ aiLoading' = TRUE
             /\ aiInsight' = aiInsight
        ELSE /\ inflight' = inflight
             /\ aiLoading' = FALSE
             /\ aiInsight' = analyzeOutliersWithGemini(apiKey, prompt, "ok")
  /\ UNCHANGED <<dataset, xKey, yKey, threshold, analysisResult, activeTab,
                 pendingEffects, apiKey, editorVars, countVars>>

\* handleGeminiAnalysis without its first line
handleGeminiAnalysisUnguarded == StartInsight

\* handleGeminiAnalysis up to its await: if (!analysisResult) return;
handleGeminiAnalysis ==
  IF ~analysisResult.present THEN UNCHANGED vars ELSE StartInsight

\* a click on the Generate Insights button
RequestInsight ==
  /\ Quiescent /\ PanelRendered
  /\ InsightButtonEnabled(aiInsight, aiLoading)
  /\ handleGeminiAnalysis

\* the model answers call i or the call fails, and handleGeminiAnalysis
\* resumes after its await: setAiInsight(result); setAiLoading(false)
ResumeHandler(i, outcome) ==
  /\ Quiescent
  /\ i \in 1..Len(inflight)
  /\ aiInsight' = analyzeOutliersWithGemini(apiKey, inflight[i], outcome)
  /\ aiLoading' = FALSE
  /\ inflight' = RemoveAt(inflight, i)
  /\ UNCHANGED <<dataset, xKey, yKey, threshold, analysisResult, activeTab,
                 pendingEffects, apiKey, editorVars, countVars>>

\* the Clear Analysis button
ClearAnalysis ==
  /\ Quiescent /\ PanelRendered
  /\ aiInsight.present
  /\ aiInsight' = NoInsight
  /\ UNCHANGED <<dataset, xKey, yKey, threshold, analysisResult, aiLoading, activeTab,
                 pendingEffects, serviceVars, editorVars, countVars>>

\* App.handleDataLoaded reached by a load still under way (a timer or a file
\* reader of DataSource) while the dashboard is mounted: setDataset(data)
ReplaceDataset(ds) ==
  /\ Quiescent
  /\ nChanges < MaxChanges
  /\ dataset' = ds
  /\ pendingEffects' = {"sync", "repair", "analysis"}
  /\ nChanges' = nChanges + 1
  /\ UNCHANGED <<dashVars, serviceVars, editorVars>>

(***************************************************************************)
(* components/AnalysisDashboard.tsx: DataEditor                            *)
(***************************************************************************)
RECURSIVE NatToChars(_)
NatToChars(n) ==
  IF n < 10 THEN <<Digits[n + 1]>>
  ELSE NatToChars(n \div 10) \o <<Digits[(n % 10) + 1]>>

\* String(value)
String(v) ==
  CASE v.t = "number" ->
         IF v.k = "nan" THEN <<"N", "a", "N">>
         ELSE IF v.k = "inf" THEN (IF v.n < 0 THEN <<"-">> ELSE <<>>) \o InfinityText
         ELSE IF v.n < 0 THEN <<"-">> \o NatToChars(0 - v.n) ELSE NatToChars(v.n)
    [] v.t = "string" -> v.s
    [] v.t = "boolean" ->
         IF v.n = 1 THEN <<"t", "r", "u", "e">> ELSE <<"f", "a", "l", "s", "e">>
    [] v.t = "null" -> <<"n", "u", "l", "l">>
    [] OTHER -> <<"u", "n", "d", "e", "f", "i", "n", "e", "d">>

UpperCase == <<"A", "B", "C", "D", "E", "F", "G", "H", "I", "J", "K", "L", "M",
               "N", "O", "P", "Q", "R", "S", "T", "U", "V", "W", "X", "Y", "Z">>
LowerCase == <<"a", "b", "c", "d", "e", "f", "g", "h", "i", "j", "k", "l", "m",
               "n", "o", "p", "q", "r", "s", "t", "u", "v", "w", "x", "y", "z">>
\* the lower-case letter of an upper-case letter
LowerOf == [c \in {UpperCase[j] : j \in 1..26} |-> LowerCase[CHOOSE j \in 1..26 : UpperCase[j] = c]]
toLowerCase(cs) == [i \in 1..Len(cs) |-> IF cs[i] \in DOMAIN LowerOf THEN LowerOf[cs[i]] ELSE cs[i]]

\* text.includes(part): the empty text is part of every text
includes(text, part) ==
  \/ part = <<>>
  \/ \E from \in 0..(Len(text) - Len(part)) : SubSeq(text, from + 1, from + Len(part)) = part

\* the filter callback comparing the texts as they are
RowMatchesCaseSensitive(row, columns, term) ==
  \E i \in 1..Len(columns) : includes(String(Get(row, columns[i])), term)

\* the callback of localData.filter: columns.some(col => ...)
RowMatches(row, columns, term) ==
  \E i \in 1..Len(columns) :
    includes(toLowerCase(String(Get(row, columns[i]))), toLowerCase(term))

\* the positions (from 1) in localData of the rows the filter keeps, in order
FilteredIndices ==
  SelectSeq([i \in 1..Len(localData) |-> i],
            LAMBDA i : RowMatches(localData[i], dataset.columns, searchTerm))

\* localData.filter(...)
filteredData ==
  LET kept == FilteredIndices
  IN [k \in 1..Len(kept) |-> localData[kept[k]]]

\* Math.ceil(filteredData.length / ROWS_PER_PAGE)
totalPages == (Len(filteredData) + ROWS_PER_PAGE - 1) \div ROWS_PER_PAGE

startIndex == (currentPage - 1) * ROWS_PER_PAGE

\* seq.slice(from, to) for 0 <= from <= to
SliceFrom(seq, from, to) == SubSeq(seq, from + 1, IF Len(seq) < to THEN Len(seq) ELSE to)

\* filteredData.slice(startIndex, startIndex + ROWS_PER_PAGE)
currentData == SliceFrom(filteredData, startIndex, startIndex + ROWS_PER_PAGE)

\* localData.indexOf(currentData[rowIndex]) looking for the first row that
\* has the values of the shown one
GlobalIndexByValue(rowIndex) ==
  IF rowIndex < Len(currentData)
  THEN (CHOOSE i \in 1..Len(localData) :
          /\ localData[i] = currentData[rowIndex + 1]
          /\ \A j \in 1..(i - 1) : localData[j] # currentData[rowIndex + 1]) - 1
  ELSE 0 - 1

\* localData.indexOf(currentData[rowIndex]): the rows of localData are
\* distinct objects and indexOf compares references, so the row found is the
\* shown one; -1 when no row is shown at rowIndex
GlobalIndex(rowIndex) ==
  IF rowIndex < Len(currentData) THEN FilteredIndices[startIndex + rowIndex + 1] - 1
  ELSE 0 - 1

\* saveEdit without the conversion of numeric cells
FinalValueAsText(originalValue, text) ==
  IF typeof(originalValue) = "boolean"
  THEN Bool(toLowerCase(text) = <<"t", "r", "u", "e">>)
  ELSE Str(text)

\* saveEdit comparing the buffer with 'true' without toLowerCase()
FinalValueCaseSensitive(originalValue, text) ==
  IF typeof(originalValue) = "number" /\ ~isNaN(Number(Str(text)))
  THEN Number(Str(text))
  ELSE IF typeof(originalValue) = "boolean"
  THEN Bool(text = <<"t", "r", "u", "e">>)
  ELSE Str(text)

\* the value saveEdit stores for the buffer, given the cell's original value
FinalValue(originalValue, text) ==
  IF typeof(originalValue) = "number" /\ ~isNaN(Number(Str(text)))
  THEN Number(Str(text))
  ELSE IF typeof(originalValue) = "boolean"
  THEN Bool(toLowerCase(text) = <<"t", "r", "u", "e">>)
  ELSE Str(text)

\* the Data Editor / Analysis tabs.  DataEditor is mounted with the data tab
\* and unmounted with it; leaving an input that still commits goes through
\* its blur handler (saveEdit) first.
SwitchTab(tab) ==
  /\ Quiescent
  /\ tab # activeTab
  /\ ~editingCell.present \/ GlobalIndex(editingCell.rowIndex) = 0 - 1
  /\ activeTab' = tab
  /\ localData' = IF tab = "data" THEN dataset.data ELSE <<>>
  /\ editingCell' = NoCell
  /\ editValue' = <<>>
  /\ currentPage' = 1
  /\ searchTerm' = <<>>
  /\ UNCHANGED <<dataset, xKey, yKey, threshold, analysisResult, aiInsight, aiLoading,
                 pendingEffects, serviceVars, countVars>>

\* startEdit leaving the buffer of an edit in progress as it is
startEditKeepsBuffer(rowIndex, colKey, value) ==
  /\ Quiescent /\ activeTab = "data"
  /\ editingCell' = Cell(rowIndex, colKey)
  /\ editValue' = IF editingCell.present THEN editValue ELSE String(value)
  /\ UNCHANGED <<dataset, dashVars, pendingEffects, serviceVars, localData, pageVars,
                 countVars>>

\* startEdit(rowIndex, colKey, value)
startEdit(rowIndex, colKey, value) ==
  /\ Quiescent /\ activeTab = "data"
  /\ editingCell' = Cell(rowIndex, colKey)
  /\ editValue' = String(value)
  /\ UNCHANGED <<dataset, dashVars, pendingEffects, serviceVars, localData, pageVars,
                 countVars>>

\* a click on a cell of the shown rows, which calls startEdit unless the cell
\* is the one being edited (lines 549-560).  The blur of the input that a
\* click elsewhere causes in a browser is saveEdit, a step of its own.
ClickCell ==
  LET shown == currentData
  IN \E rIndex \in 0..(Len(shown) - 1) : \E i \in 1..Len(dataset.columns) :
       LET col == dataset.columns[i]
           isEditing == editingCell.present /\ editingCell.rowIndex = rIndex
                          /\ editingCell.colKey = col
       IN ~isEditing /\ startEdit(rIndex, col, Get(shown[rIndex + 1], col))

\* typing in the cell's input
SetEditValue(text) ==
  /\ Quiescent /\ activeTab = "data"
  /\ editingCell.present
  /\ text # editValue
  /\ editValue' = text
  /\ UNCHANGED <<dataset, dashVars, pendingEffects, serviceVars, localData,
                 editingCell, pageVars, countVars>>

\* a new row that holds the edited field only
EditedRowOnly(row, colKey, finalValue) == [key \in {colKey} |-> finalValue]

\* { ...newData[globalIndex], [colKey]: finalValue }
EditedRow(row, colKey, finalValue) ==
  [key \in DOMAIN row \cup {colKey} |-> IF key = colKey THEN finalValue ELSE row[key]]

\* handleDataUpdate handing over the rows alone, without the spread
handleDataUpdateRowsOnly(ds, newData) == [name |-> "", columns |-> <<>>, data |-> newData]

\* handleDataUpdate and App.handleUpdateDataset: the dataset becomes
\* { ...dataset, data: newData }
handleDataUpdate(ds, newData) == [ds EXCEPT !.data = newData]

\* Enter or blur: saveEdit, then handleDataUpdate and App.handleUpdateDataset.
\* Without a cell being edited, or with a row that is not found, it returns
\* at once.
saveEdit ==
  /\ Quiescent /\ activeTab = "data"
  /\ editingCell.present => nChanges < MaxChanges
  /\ LET globalIndex == GlobalIndex(editingCell.rowIndex)
         colKey == editingCell.colKey
     IN IF ~editingCell.present \/ globalIndex = 0 - 1
        THEN UNCHANGED <<dataset, localData, editingCell, pendingEffects, nChanges>>
        ELSE LET originalValue == Get(localData[globalIndex + 1], colKey)
                 finalValue == FinalValue(originalValue, editValue)
                 newRow == EditedRow(localData[globalIndex + 1], colKey, finalValue)
                 newData == [localData EXCEPT ![globalIndex + 1] = newRow]
             IN /\ localData' = newData
                /\ dataset' = handleDataUpdate(dataset, newData)
                /\ editingCell' = NoCell
                /\ pendingEffects' = {"sync", "repair", "analysis"}
                /\ nChanges' = nChanges + 1
  /\ UNCHANGED <<dashVars, serviceVars, editValue, pageVars>>

\* cancelEdit without its setEditValue('')
cancelEditKeepsBuffer ==
  /\ Quiescent /\ activeTab = "data"
  /\ editingCell.present
  /\ editingCell' = NoCell
  /\ UNCHANGED <<dataset, dashVars, pendingEffects, serviceVars, localData,
                 editValue, pageVars, countVars>>

\* Escape
cancelEdit ==
  /\ Quiescent /\ activeTab = "data"
  /\ editingCell.present
  /\ editingCell' = NoCell
  /\ editValue' = <<>>
  /\ UNCHANGED <<dataset, dashVars, pendingEffects, serviceVars, localData,
                 pageVars, countVars>>

\* the search box: setSearchTerm(e.target.value); setCurrentPage(1)
SetSearchTerm(term) ==
  /\ Quiescent /\ activeTab = "data"
  /\ term # searchTerm
  /\ searchTerm' = term
  /\ currentPage' = 1
  /\ UNCHANGED <<dataset, dashVars, pendingEffects, serviceVars, localData,
                 editingCell, editValue, countVars>>

\* handlePageChange leaving an edit in progress as it is
handlePageChangeKeepsEdit(newPage) ==
  /\ Quiescent /\ activeTab = "data"
  /\ IF newPage >= 1 /\ newPage <= totalPages
     THEN currentPage' = newPage /\ editingCell' = editingCell
     ELSE UNCHANGED <<currentPage, editingCell>>
  /\ UNCHANGED <<dataset, dashVars, pendingEffects, serviceVars, localData,
                 editValue, searchTerm, countVars>>

\* the pagination buttons
handlePageChange(newPage) ==
  /\ Quiescent /\ activeTab = "data"
  /\ IF newPage >= 1 /\ newPage <= totalPages
     THEN currentPage' = newPage /\ editingCell' = NoCell
     ELSE UNCHANGED <<currentPage, editingCell>>
  /\ UNCHANGED <<dataset, dashVars, pendingEffects, serviceVars, localData,
                 editValue, searchTerm, countVars>>

\* the terms typed into the search box and the pages asked for under Spec,
\* whose datasets fit on one page
DashTerms == {<<>>, <<"x">>}
DashPages == 0..2

Next ==
  \/ RunEffects
  \/ \E key \in Keys : SetXKey(key)
  \/ \E key \in Keys : SetYKey(key)
  \/ \E t \in ThresholdChoices : SetThreshold(t)
  \/ RequestInsight
  \/ \E i \in 1..Len(inflight) : \E outcome \in Outcomes : ResumeHandler(i, outcome)
  \/ ClearAnalysis
  \/ \E ds \in Datasets : ReplaceDataset(ds)
  \/ \E tab \in {"analysis", "data"} : SwitchTab(tab)
  \/ ClickCell
  \/ \E text \in EditTexts : SetEditValue(text)
  \/ saveEdit
  \/ cancelEdit
  \/ \E term \in DashTerms : SetSearchTerm(term)
  \/ \E newPage \in DashPages : handlePageChange(newPage)

Spec == Init /\ [][Next]_vars

(***************************************************************************)
(* Claims about the dashboard (checked under Spec)                         *)
(***************************************************************************)
\* the dataset has at least one row and both axes are selected
RowsAndAxes == xKey # "" /\ yKey # "" /\ Len(dataset.data) > 0

\* the prompt a request issued now would carry
CurrentPrompt ==
  Prompt(dataset.data, dataset.columns, analysisResult.outlierIndices, xKey, yKey)

\* a step in which an outstanding call ends and its handler resumes
ResponseArrives == Len(inflight') < Len(inflight)

\* C1: a response that arrives after the inputs of its request have changed
\* is not stored.  The prompt of a call is built from the dataset rows, the
\* columns, the outlier indices and the two axes of the moment of the
\* request; it differs from the current prompt only if an input changed.
C1_LateResponseDiscarded ==
  [][(ResponseArrives /\ Len(inflight) = 1 /\ inflight[1] # CurrentPrompt)
       => ~aiInsight'.present]_vars

C3_ResultAlwaysCurrent ==
  Quiescent =>
    analysisResult = Result(detectOutliers(dataset.data, xKey, yKey, threshold))

\* C3 amended: the same, when the dataset has at least one row and both axes
\* are selected.
C3_ResultCurrentWhenAnalysisRuns ==
  (Quiescent /\ RowsAndAxes) =>
    analysisResult = Result(detectOutliers(dataset.data, xKey, yKey, threshold))

\* the dataset was changed while a request is outstanding, the effects have
\* run, and the current result flags a row
C3_Witness ==
  /\ Quiescent
  /\ nChanges > 0
  /\ inflight # <<>>
  /\ RowsAndAxes
  /\ Len(analysisResult.outlierIndices) > 0

\* C4: once a dataset change has been processed, both axes are numeric
\* columns if there is one; the repair replaces an xKey that is not by the
\* first numeric column and a yKey that is not by the second, or by the
\* first when there is only one, and leaves a key that is numeric alone.
C4_AxisValidity ==
  /\ [](Quiescent /\ Len(numericColumns(dataset)) > 0
          => /\ Includes(numericColumns(dataset), xKey)
             /\ Includes(numericColumns(dataset), yKey))
  /\ [][LET nc == numericColumns(dataset)
        IN ("repair" \in pendingEffects /\ Len(nc) > 0) =>
             /\ xKey' = IF Includes(nc, xKey) THEN xKey ELSE nc[1]
             /\ yKey' = IF Includes(nc, yKey) THEN yKey
                        ELSE IF Len(nc) >= 2 THEN nc[2] ELSE nc[1]]_vars

\* a dataset change after which neither axis is a numeric column while two
\* numeric columns exist, about to be repaired
C4_Witness ==
  /\ "repair" \in pendingEffects
  /\ nChanges > 0
  /\ Len(numericColumns(dataset)) >= 2
  /\ ~Includes(numericColumns(dataset), xKey)
  /\ ~Includes(numericColumns(dataset), yKey)

C6_SingleRequest ==
  /\ Len(inflight) <= 1
  /\ inflight # <<>> => aiLoading

\* a request is outstanding while the panel with the (disabled) button is shown
C6_Witness ==
  /\ Len(inflight) = 1
  /\ Quiescent
  /\ PanelRendered
  /\ ~aiInsight.present

\* C7: a call that ends, however it ends, lets the handler complete:
\* aiLoading is reset, and the insight is the fixed fallback object when the
\* call failed (rejected, empty text, unparsable text) and exactly the object
\* the model returned for that call when it succeeded.  Without an API key no
\* call is made and a request leaves the fixed key-missing object.  Every
\* stored insight holds a summary, an outlierAnalysis and a list.
C7_FallbackOnFailure ==
  [][/\ \A i \in 1..Len(inflight) : \A outcome \in Outcomes :
          ResumeHandler(i, outcome) =>
            /\ ~aiLoading'
            /\ aiInsight'.present
            /\ aiInsight' = IF outcome = "ok" THEN ModelAnswer(inflight[i])
                                              ELSE FailedInsight
     /\ (~apiKey /\ RequestInsight) =>
          /\ inflight' = <<>> /\ ~aiLoading'
          /\ aiInsight' = KeyMissingInsight]_vars

\* a failed call has left the fallback object in the cache
C7_Witness ==
  /\ aiInsight = FailedInsight
  /\ ~aiLoading
  /\ inflight = <<>>

(***************************************************************************)
(* detectOutliers on its own: the rows are drawn from a bounded set, the   *)
(* one action calls detectOutliers(dataset.data, xKey, yKey, t) and keeps  *)
(* the result in analysisResult.                                           *)
(***************************************************************************)
DetectRows ==
  {Row3(Num(0), Num(0), Undefined), Row3(Num(1), Num(0), Undefined),
   Row3(Num(0), Num(1), Undefined), Row3(Num(1), Num(1), Undefined),
   Row3(X, Num(1), Undefined)}
DetectData == UNION {[1..n -> DetectRows] : n \in 0..MaxRows}
DetectThresholds == {SliderMin, 20, DefaultThreshold, SliderMax}

InitDetect ==
  /\ dataset \in {[name |-> "rows", columns |-> <<"a", "b">>, data |-> d] : d \in DetectData}
  /\ xKey = "a"
  /\ yKey = "b"
  /\ threshold = DefaultThreshold
  /\ analysisResult = NoResult
  /\ aiInsight = NoInsight
  /\ aiLoading = FALSE
  /\ activeTab = "analysis"
  /\ pendingEffects = {}
  /\ apiKey = TRUE
  /\ inflight = <<>>
  /\ localData = <<>>
  /\ editingCell = NoCell
  /\ editValue = <<>>
  /\ currentPage = 1
  /\ searchTerm = <<>>
  /\ nChanges = 0

\* a detectOutliers that writes the scored fields into the rows it is given
InputAfterCallInPlace(data, processed) == [i \in 1..Len(data) |-> processed[i].row]

\* the rows passed to detectOutliers once it has returned: the pushed object
\* is a new one ({...row, ...}, lines 55-63), map and filter of calculateStats
\* build new arrays (lines 4-6), and nothing is assigned to data or to a row
InputAfterCall(data, processed) == data

DetectCall(t) ==
  /\ ~analysisResult.present
  /\ threshold' = t
  /\ LET result == detectOutliers(dataset.data, xKey, yKey, t)
     IN /\ analysisResult' = Result(result)
        /\ dataset' = [dataset EXCEPT !.data = InputAfterCall(dataset.data, result.processedData)]
  /\ UNCHANGED <<xKey, yKey, aiInsight, aiLoading, activeTab, pendingEffects,
                 serviceVars, editorVars, countVars>>

NextDetect == \E t \in DetectThresholds : DetectCall(t)

SpecDetect == InitDetect /\ [][NextDetect]_vars

(***************************************************************************)
(* Claims about detectOutliers (checked under SpecDetect)                  *)
(***************************************************************************)
\* |z| > threshold, from the square of z and the threshold in tenths
SquareExceeds(z, t) == 100 * z.sq.num > t * t * z.sq.den
\* sqrt(zx^2 + zy^2) > threshold * 1.4, i.e. zx^2 + zy^2 > 1.96 * threshold^2
JointExceeds(zx, zy, t) ==
  10000 * (zx.sq.num * zy.sq.den + zy.sq.num * zx.sq.den)
    > 196 * t * t * zx.sq.den * zy.sq.den
\* the z-score 2.0
TwoPointZero == [sgn |-> 1, sq |-> [num |-> 4, den |-> 1]]

\* C8: a row is flagged if and only if |zScoreX| > threshold or |zScoreY| >
\* threshold or sqrt(zScoreX^2 + zScoreY^2) > threshold * 1.4; at threshold
\* 2.5 a row with zScoreX = zScoreY = 2.0 is not flagged.
C8_OutlierRule ==
  analysisResult.present =>
    \A i \in 1..Len(analysisResult.processedData) :
      LET e == analysisResult.processedData[i]
      IN /\ e.isOutlier <=> \/ SquareExceeds(e.zScoreX, threshold)
                            \/ SquareExceeds(e.zScoreY, threshold)
                            \/ JointExceeds(e.zScoreX, e.zScoreY, threshold)
         /\ (threshold = 25 /\ e.zScoreX = TwoPointZero /\ e.zScoreY = TwoPointZero)
              => ~e.isOutlier

\* a row with zScoreX = zScoreY = 2.0 scored at threshold 2.5 and not flagged
C8_Witness ==
  /\ analysisResult.present
  /\ threshold = 25
  /\ \E i \in 1..Len(analysisResult.processedData) :
       LET e == analysisResult.processedData[i]
       IN e.zScoreX = TwoPointZero /\ e.zScoreY = TwoPointZero /\ ~e.isOutlier

\* the set of the elements of a sequence
Range(seq) == {seq[i] : i \in 1..Len(seq)}

\* C9: scoredRows has the length and the row order of the input rows, and
\* outlierIndices is strictly ascending and holds index i exactly when
\* scoredRows[i].isOutlier.
C9_OrderAndIndices ==
  analysisResult.present =>
    LET scored == analysisResult.processedData
        indices == analysisResult.outlierIndices
    IN /\ Len(scored) = Len(dataset.data)
       /\ \A i \in 1..Len(scored) :
            /\ \A key \in Keys \ {xKey, yKey} : scored[i].row[key] = dataset.data[i][key]
            /\ scored[i].row[xKey] = Number(dataset.data[i][xKey])
            /\ scored[i].row[yKey] = Number(dataset.data[i][yKey])
       /\ \A j \in 1..Len(indices) - 1 : indices[j] < indices[j + 1]
       /\ \A i \in 1..Len(scored) : (i - 1) \in Range(indices) <=> scored[i].isOutlier
       /\ Range(indices) \subseteq 0..(Len(scored) - 1)

\* a result with at least two flagged rows and a row that is not flagged,
\* over rows that are not all equal
C9_Witness ==
  /\ analysisResult.present
  /\ Len(analysisResult.outlierIndices) >= 2
  /\ Len(analysisResult.outlierIndices) < Len(dataset.data)
  /\ \E i, j \in 1..Len(dataset.data) : dataset.data[i] # dataset.data[j]

\* C10: for fixed rows and axes and thresholds t1 <= t2, the outlier index
\* set at t2 is a subset of the one at t1 (here t1 is the threshold of the
\* stored result).
C10_ThresholdMonotone ==
  analysisResult.present =>
    \A t2 \in DetectThresholds :
      threshold <= t2 =>
        LET later == detectOutliers(dataset.data, xKey, yKey, t2).outlierIndices
        IN /\ Range(later) \subseteq Range(analysisResult.outlierIndices)
           /\ Len(later) <= Len(analysisResult.outlierIndices)

\* a result at the lowest threshold with outliers, some of which are no
\* longer outliers at the highest threshold
C10_Witness ==
  /\ analysisResult.present
  /\ threshold = SliderMin
  /\ Len(analysisResult.outlierIndices) > 0
  /\ Len(detectOutliers(dataset.data, xKey, yKey, SliderMax).outlierIndices)
       < Len(analysisResult.outlierIndices)

\* the value coerces to a number (not NaN)
Coerces(v) == ~isNaN(Number(v))

\* z is (value - mean) / stdDev for a stdDev other than 0: its sign is the
\* sign of value - mean and its square times the variance is the square of
\* value - mean (mean a fraction m/d, variance a fraction vn/vd)
IsQuotient(z, value, stats) ==
  LET dev == value * stats.mean.den - stats.mean.num
  IN /\ z.sgn = Sign(dev)
     /\ z.sq.num * stats.stdDev.sq.num * stats.mean.den * stats.mean.den
          = dev * dev * z.sq.den * stats.stdDev.sq.den

\* the z-score of the claim for the original value of a row on one axis
IsScoreOf(z, original, stats) ==
  IF Coerces(original) /\ stats.stdDev.sq.num # 0
  THEN IsQuotient(z, Number(original).n, stats)
  ELSE z.sgn = 0 /\ z.sq.num = 0

\* C30: on each axis the z-score of a row is (value - mean) / stdDev when
\* the value coerces to a number and stdDev is not 0, and 0 otherwise; a row
\* whose value on one axis does not coerce is scored at its own position
\* and is flagged exactly when its z-score on the other axis exceeds the
\* threshold.
C30_ZScoreOrZero ==
  analysisResult.present =>
    LET data == dataset.data
        scored == analysisResult.processedData
        xStats == calculateStats(data, xKey)
        yStats == calculateStats(data, yKey)
    IN /\ Len(scored) = Len(data)
       /\ \A i \in 1..Len(data) :
            LET x == Get(data[i], xKey)
                y == Get(data[i], yKey)
            IN /\ IsScoreOf(scored[i].zScoreX, x, xStats)
               /\ IsScoreOf(scored[i].zScoreY, y, yStats)
               /\ ~Coerces(x) =>
                    /\ isNaN(scored[i].row[xKey])
                    /\ scored[i].row[yKey] = Number(y)
                    /\ scored[i].isOutlier <=> SquareExceeds(scored[i].zScoreY, threshold)
               /\ ~Coerces(y) =>
                    /\ isNaN(scored[i].row[yKey])
                    /\ scored[i].row[xKey] = Number(x)
                    /\ scored[i].isOutlier <=> SquareExceeds(scored[i].zScoreX, threshold)

\* five rows scored at the slider's minimum: the second holds a text on the x
\* axis and the only 1 on the y axis, has the z-scores 0 and 2 and is the one
\* row flagged; a row with numbers on both axes has a z-score other than 0
C30_Witness ==
  /\ analysisResult.present
  /\ threshold = SliderMin
  /\ Len(dataset.data) = MaxRows
  /\ dataset.data[2] = Row3(X, Num(1), Undefined)
  /\ analysisResult.processedData[2].zScoreX = Zero
  /\ analysisResult.processedData[2].zScoreY = TwoPointZero
  /\ analysisResult.outlierIndices = <<1>>
  /\ analysisResult.processedData[1].zScoreX.sgn # 0

NextCallAppending(previous, data, x, y, t) ==
  LET fresh == detectOutliers(data, x, y, t)
  IN [processedData |-> previous.processedData \o fresh.processedData,
      outlierIndices |-> previous.outlierIndices \o fresh.outlierIndices]

\* a call of detectOutliers after a call that returned previous: the
\* statistics and the two arrays are constants of the call (lines 25-29) and
\* the function reads nothing but its arguments
NextCall(previous, data, x, y, t) == detectOutliers(data, x, y, t)

DetectAgain(t) ==
  /\ analysisResult.present
  /\ threshold' = t
  /\ analysisResult' =
       Result(NextCall(analysisResult, dataset.data, xKey, yKey, t))
  /\ UNCHANGED <<dataset, xKey, yKey, aiInsight, aiLoading, activeTab, pendingEffects,
                 serviceVars, editorVars, countVars>>

NextTwice ==
  \/ \E t \in DetectThresholds : DetectCall(t)
  \/ \E t \in DetectThresholds : DetectAgain(t)

SpecTwice == InitDetect /\ [][NextTwice]_vars

(***************************************************************************)
(* Claims about repeated calls (checked under SpecTwice)                   *)
(***************************************************************************)
\* the flags and the z-scores of a result, row by row, and its indices
Scores(result) ==
  [indices |-> result.outlierIndices,
   rows |-> [i \in 1..Len(result.processedData) |->
               <<result.processedData[i].isOutlier,
                 result.processedData[i].zScoreX,
                 result.processedData[i].zScoreY>>]]

StatValues ==
  {Num(1), Num(3), Null, X, Undefined, Infinity, NegInfinity, Str(InfinityText)}
\* the column 2, 4, 4, 4, 5, 5, 7, 9
EightValues == <<Num(2), Num(4), Num(4), Num(4), Num(5), Num(5), Num(7), Num(9)>>
StatColumns == UNION {[1..n -> StatValues] : n \in 0..MaxValues} \cup {EightValues}
\* the rows holding a column of values under "a"
RowsOf(column) == [i \in 1..Len(column) |-> Row3(column[i], Undefined, Undefined)]

InitStats ==
  /\ dataset \in {[name |-> "column", columns |-> <<"a">>, data |-> RowsOf(c)] :
                    c \in StatColumns}
  /\ xKey = "a"
  /\ yKey = "b"
  /\ threshold = DefaultThreshold
  /\ analysisResult = NoResult
  /\ aiInsight = NoInsight
  /\ aiLoading = FALSE
  /\ activeTab = "analysis"
  /\ pendingEffects = {}
  /\ apiKey = TRUE
  /\ inflight = <<>>
  /\ localData = <<>>
  /\ editingCell = NoCell
  /\ editValue = <<>>
  /\ currentPage = 1
  /\ searchTerm = <<>>
  /\ nChanges = 0

StatsCall == DetectCall(DefaultThreshold)

NextStats == StatsCall

SpecStats == InitStats /\ [][NextStats]_vars

(***************************************************************************)
(* Claims about calculateStats (checked under SpecStats)                   *)
(***************************************************************************)
\* the values of a field, row by row
ColumnOf(data, key) == [i \in 1..Len(data) |-> Get(data[i], key)]
ZeroStats == [mean |-> Frac(0, 1), stdDev |-> Zero, min |-> Frac(0, 1), max |-> Frac(0, 1)]

\* C12: when no row holds a value that coerces to a number for a field (no
\* rows at all, or a field absent from every row, included), calculateStats
\* returns {mean: 0, stdDev: 0, min: 0, max: 0}.
C12_EmptyStats ==
  analysisResult.present =>
    \A key \in {xKey, yKey} :
      (\A i \in 1..Len(dataset.data) : ~Coerces(Get(dataset.data[i], key)))
        => calculateStats(dataset.data, key) = ZeroStats

\* rows whose field holds text and a missing value only have been scored
C12_Witness ==
  /\ analysisResult.present
  /\ ColumnOf(dataset.data, xKey) = <<X, Undefined>>
  /\ calculateStats(dataset.data, xKey) = ZeroStats
  /\ calculateStats(dataset.data, yKey) = ZeroStats

\* the integers among the coerced values of a field, in row order
FiniteValues(data, key) ==
  LET coerced == [i \in 1..Len(data) |-> Number(Get(data[i], key))]
      kept == SelectSeq(coerced, LAMBDA v : v.k = "fin")
  IN [i \in 1..Len(kept) |-> kept[i].n]
\* some value of the field coerces to an infinity
SomeInfinite(data, key) ==
  \E i \in 1..Len(data) : Number(Get(data[i], key)).k = "inf"
RECURSIVE SumInts(_)
SumInts(s) == IF Len(s) = 0 THEN 0 ELSE s[1] + SumInts(Tail(s))

\* C13: over the retained values v1..vn (n > 0, all finite) the mean is
\* (v1 + .. + vn) / n, the standard deviation is the population one, the
\* square root of ((v1 - mean)^2 + .. + (vn - mean)^2) / n, and min and max
\* are the least and the greatest value; for 2, 4, 4, 4, 5, 5, 7, 9 the
\* mean is 5 and the standard deviation is 2.
C13_PopulationStdDev ==
  analysisResult.present =>
    LET vs == FiniteValues(dataset.data, xKey)
        n == Len(vs)
        st == calculateStats(dataset.data, xKey)
        devs == [i \in 1..n |-> (vs[i] * st.mean.den - st.mean.num)
                                   * (vs[i] * st.mean.den - st.mean.num)]
    IN /\ (n > 0 /\ ~SomeInfinite(dataset.data, xKey)) =>
            /\ st.mean.den > 0
            /\ st.mean.num * n = SumInts(vs) * st.mean.den
            /\ st.stdDev.sq.den > 0
            /\ st.stdDev.sq.num * (st.mean.den * st.mean.den * n)
                 = st.stdDev.sq.den * SumInts(devs)
            /\ st.stdDev.sgn = IF SumInts(devs) = 0 THEN 0 ELSE 1
            /\ st.min.den = 1 /\ st.max.den = 1
            /\ \E i \in 1..n : vs[i] = st.min.num
            /\ \E i \in 1..n : vs[i] = st.max.num
            /\ \A i \in 1..n : st.min.num <= vs[i] /\ vs[i] <= st.max.num
       /\ ColumnOf(dataset.data, xKey) = EightValues =>
            /\ st.mean = [num |-> 5, den |-> 1]
            /\ st.stdDev = [sgn |-> 1, sq |-> [num |-> 4, den |-> 1]]
            /\ st.min = [num |-> 2, den |-> 1]
            /\ st.max = [num |-> 9, den |-> 1]

\* the column 2, 4, 4, 4, 5, 5, 7, 9 has been scored
C13_Witness ==
  /\ analysisResult.present
  /\ ColumnOf(dataset.data, xKey) = EightValues
  /\ calculateStats(dataset.data, xKey).stdDev = [sgn |-> 1, sq |-> [num |-> 4, den |-> 1]]

\* the rows whose value for the field coerces to a finite number
FiniteRows(data, key) ==
  SelectSeq(data, LAMBDA row : Number(Get(row, key)).k = "fin")

\* C14: a value that does not coerce to a finite number (missing,
\* non-numeric text, infinite) contributes nothing: the statistics of a
\* field are those of the rows whose value coerces to a finite number.
C14_NonFiniteExcluded ==
  analysisResult.present =>
    calculateStats(dataset.data, xKey)
      = calculateStats(FiniteRows(dataset.data, xKey), xKey)

(***************************************************************************)
(* Claims about the scored view (checked under SpecStats)                  *)
(***************************************************************************)
\* the scored value of a field of row i
Scored(i, key) == analysisResult.processedData[i].row[key]

EditCells == {Num(4), Bool(TRUE), Bool(FALSE), X, Null}
EditDatasets ==
  {[name |-> "cells", columns |-> <<"a", "b">>,
    data |-> <<Row3(v, Num(1), Undefined), Row3(w, Num(2), Undefined)>>] :
     v \in EditCells, w \in EditCells}
\* the texts typed into a cell's input
BufferTexts ==
  {<<"4", "2">>, <<"a", "b", "c">>, <<"T", "R", "U", "E">>, <<"t", "r", "u", "e">>,
   <<"f", "a", "l", "s", "e">>, <<>>, InfinityText}

InitEdit ==
  /\ dataset \in EditDatasets
  /\ xKey = InitialX(numericColumns(dataset))
  /\ yKey = InitialY(numericColumns(dataset))
  /\ threshold = DefaultThreshold
  /\ analysisResult = Result(detectOutliers(dataset.data, xKey, yKey, threshold))
  /\ aiInsight = NoInsight
  /\ aiLoading = FALSE
  /\ activeTab = "data"
  /\ pendingEffects = {}
  /\ apiKey = TRUE
  /\ inflight = <<>>
  /\ localData = dataset.data
  /\ editingCell = NoCell
  /\ editValue = <<>>
  /\ currentPage = 1
  /\ searchTerm = <<>>
  /\ nChanges = 0

\* the terms typed into the search box and the pages asked for
SearchTerms == {<<>>, <<"x">>, <<"T", "r">>}
PageChoices == 0..2

NextEdit ==
  \/ ClickCell
  \/ \E text \in BufferTexts : SetEditValue(text)
  \/ saveEdit
  \/ cancelEdit
  \/ \E term \in SearchTerms : SetSearchTerm(term)
  \/ \E newPage \in PageChoices : handlePageChange(newPage)
  \/ RunEffects

SpecEdit == InitEdit /\ [][NextEdit]_vars

(***************************************************************************)
(* DataEditor on more rows than a page holds: the data tab is open on a    *)
(* dataset of MaxPageRows rows, so the editor shows two pages.  Column a   *)
(* holds text and column b a number.                                       *)
(***************************************************************************)
\* one row more than a page holds
MaxPageRows == ROWS_PER_PAGE + 1
Y == Str(<<"y">>)
PageDatasets ==
  {\* every row matches the term x; the rows differ in b
   [name |-> "distinct", columns |-> <<"a", "b">>,
    data |-> [i \in 1..MaxPageRows |-> Row3(X, Num(i), Undefined)]],
   \* rows with equal values in every column
   [name |-> "equal", columns |-> <<"a", "b">>,
    data |-> [i \in 1..MaxPageRows |-> Row3(X, Num(1), Undefined)]],
   \* the rows at odd positions match the term x, the others the term y
   [name |-> "mixed", columns |-> <<"a", "b">>,
    data |-> [i \in 1..MaxPageRows |-> Row3(IF i % 2 = 1 THEN X ELSE Y, Num(i), Undefined)]]}
PageTexts == {<<"7">>}
PageTerms == {<<>>, <<"x">>, <<"Y">>}
PagesAsked == 0..3

InitPage ==
  /\ dataset \in PageDatasets
  /\ xKey = InitialX(numericColumns(dataset))
  /\ yKey = InitialY(numericColumns(dataset))
  /\ threshold = DefaultThreshold
  /\ analysisResult = Result(detectOutliers(dataset.data, xKey, yKey, threshold))
  /\ aiInsight = NoInsight
  /\ aiLoading = FALSE
  /\ activeTab = "data"
  /\ pendingEffects = {}
  /\ apiKey = TRUE
  /\ inflight = <<>>
  /\ localData = dataset.data
  /\ editingCell = NoCell
  /\ editValue = <<>>
  /\ currentPage = 1
  /\ searchTerm = <<>>
  /\ nChanges = 0

NextPage ==
  \/ ClickCell
  \/ \E text \in PageTexts : SetEditValue(text)
  \/ saveEdit
  \/ cancelEdit
  \/ \E term \in PageTerms : SetSearchTerm(term)
  \/ \E newPage \in PagesAsked : handlePageChange(newPage)
  \/ RunEffects

SpecPage == InitPage /\ [][NextPage]_vars

(***************************************************************************)
(* Claims about the editor's handlers (checked under SpecEdit)             *)
(***************************************************************************)
\* a step of saveEdit that commits the buffer to the edited cell
Commits == editingCell.present /\ saveEdit /\ GlobalIndex(editingCell.rowIndex) # 0 - 1
\* the position (from 1) in the working copy of the row of the edited cell:
\* the row shown at editingCell.rowIndex on the current page
EditedPosition == GlobalIndex(editingCell.rowIndex) + 1
\* the edited cell's value before and after a step
CellBefore == Get(localData[EditedPosition], editingCell.colKey)
CellAfter == Get(localData'[EditedPosition], editingCell.colKey)
FortyTwo == <<"4", "2">>
Abc == <<"a", "b", "c">>

\* C16: committing an edit of a cell whose value is a number stores the
\* number the buffer coerces to when it coerces to one ("42" stores the
\* number 42) and the buffer text otherwise ("abc" stores the text "abc");
\* the commit always completes.
C16_NumericRoundTrip ==
  [][(Commits /\ typeof(CellBefore) = "number") =>
       /\ CellAfter = IF isNaN(Number(Str(editValue))) THEN Str(editValue)
                      ELSE Number(Str(editValue))
       /\ editValue = FortyTwo => CellAfter = Num(42)
       /\ editValue = Abc => CellAfter = Str(Abc)
       /\ dataset'.data = localData'
       /\ ~editingCell'.present]_vars

\* "42" has been committed to a cell of column b, which held a number
C16_Witness ==
  /\ nChanges = 1
  /\ editValue = FortyTwo
  /\ ~editingCell.present
  /\ Get(dataset.data[1], "b") = Num(42)
  /\ localData = dataset.data

\* the text equals "true" when letter case is ignored
IsTrueText(text) ==
  /\ Len(text) = 4
  /\ text[1] \in {"t", "T"} /\ text[2] \in {"r", "R"}
  /\ text[3] \in {"u", "U"} /\ text[4] \in {"e", "E"}

\* C17: committing an edit of a cell whose value is a boolean stores a
\* boolean, true exactly when the buffer equals "true" up to letter case;
\* committing an edit of a cell that holds neither a number nor a boolean
\* (text, null) stores the buffer text as it is.
C17_BooleanAndText ==
  [][Commits =>
       /\ typeof(CellBefore) = "boolean" => CellAfter = Bool(IsTrueText(editValue))
       /\ typeof(CellBefore) \notin {"number", "boolean"} => CellAfter = Str(editValue)]_vars

\* "TRUE" has been committed to the boolean cell of the first row
C17_Witness ==
  /\ nChanges = 1
  /\ editValue = <<"T", "R", "U", "E">>
  /\ Get(dataset.data[1], "a") = Bool(TRUE)
  /\ Get(dataset.data[2], "a") = Null
  /\ Get(dataset.data[1], "b") = Num(1)
  /\ Get(dataset.data[2], "b") = Num(2)
  /\ localData = dataset.data

(***************************************************************************)
(* Claims about the editor in the dashboard (checked under Spec)           *)
(***************************************************************************)
\* C18: while the editor is open and no effect is pending, the dataset's rows
\* are the editor's working copy, whether the rows were last changed by a
\* committed edit or replaced from outside; a committed edit hands the whole
\* working copy to the dataset in the same step.
C18_WorkingCopyIsDataset ==
  /\ []((Quiescent /\ activeTab = "data") => localData = dataset.data)
  /\ [][Commits => dataset'.data = localData']_vars

\* the dataset has been replaced from outside while the editor is open, and
\* the working copy still holds the previous rows
C18_Witness ==
  /\ activeTab = "data"
  /\ "sync" \in pendingEffects
  /\ nChanges = 1
  /\ localData # dataset.data

EditorIdle == UNCHANGED <<dataset, localData, dashVars, pendingEffects, serviceVars, countVars>>

\* C20: Escape leaves the working copy and the dataset as they were, empties
\* the buffer and leaves no cell being edited; committing while no cell is
\* being edited changes nothing at all.
C20_CancelDiscards ==
  [][/\ cancelEdit => (EditorIdle /\ editValue' = <<>> /\ ~editingCell'.present)
     /\ (~editingCell.present /\ saveEdit) => UNCHANGED vars]_vars

\* after 42 was committed to the first row's number (which leaves the buffer
\* holding "42"), another edit was begun and cancelled: the buffer is empty,
\* no cell is being edited and the rows are the committed ones
C20_Witness ==
  /\ ~editingCell.present
  /\ editValue = <<>>
  /\ nChanges = 1
  /\ pendingEffects = {}
  /\ Get(localData[1], "b") = Num(42)
  /\ localData = dataset.data

(***************************************************************************)
(* Claims about the row an edit is committed to (checked under SpecEdit)   *)
(***************************************************************************)
\* the position (from 1) in the working copy of the row shown at rowIndex
\* on the current page: the matching row that has startIndex + rowIndex
\* matching rows before it
ShownPosition(rowIndex) ==
  CHOOSE pos \in 1..Len(localData) :
    /\ RowMatches(localData[pos], dataset.columns, searchTerm)
    /\ Cardinality({q \in 1..(pos - 1) :
                      RowMatches(localData[q], dataset.columns, searchTerm)})
         = startIndex + rowIndex

\* the position in the working copy of the row saveEdit would write to
TargetIndex == GlobalIndex(editingCell.rowIndex)

C21_PageInRange ==
  (activeTab = "data" /\ filteredData # <<>>) =>
    (1 <= currentPage /\ currentPage <= totalPages)

\* two characters that are equal or the two cases of one letter
SameLetter(c, d) ==
  c = d \/ \E j \in 1..26 : {c, d} = {UpperCase[j], LowerCase[j]}

\* term occurs in text as a run of characters, case ignored
ContainsIgnoringCase(text, term) ==
  \E from \in 0..(Len(text) - Len(term)) :
    \A k \in 1..Len(term) : SameLetter(text[from + k], term[k])

\* C22: the filtered rows are exactly the rows of the working copy, in their
\* order, in which the string form of the value of at least one column
\* contains the search term, case ignored; and a change of the search term
\* sets the current page to 1.
C22_SearchKeepsMatches ==
  /\ [](activeTab = "data" =>
          LET kept == FilteredIndices
          IN /\ \A i \in 1..Len(localData) :
                  (\E k \in 1..Len(kept) : kept[k] = i)
                    <=> \E c \in 1..Len(dataset.columns) :
                          ContainsIgnoringCase(String(Get(localData[i], dataset.columns[c])),
                                               searchTerm)
             /\ filteredData = [k \in 1..Len(kept) |-> localData[kept[k]]]
             /\ \A k \in 2..Len(kept) : kept[k - 1] < kept[k])
  /\ [][searchTerm' # searchTerm => currentPage' = 1]_vars

\* the term Y, typed in upper case, keeps the five rows that hold y
C22_Witness ==
  /\ searchTerm = <<"Y">> /\ currentPage = 1
  /\ Len(localData) = MaxPageRows /\ Len(filteredData) = 5
  /\ \A k \in 1..5 : Get(filteredData[k], "a") = Y

ChangedRows(before, after) == {i \in 1..Len(before) : after[i] # before[i]}

\* C34: no step of the editor (a click on a cell, typing, a commit, Escape,
\* a search, a page change, the effects that follow a commit) changes the
\* name or the column list of the dataset or the number of its rows; a step
\* changes at most one row, which stays at its position with the fields it
\* had and at most one value changed; the working copy keeps its length.
C34_ShapePreserved ==
  [][/\ dataset'.name = dataset.name
     /\ dataset'.columns = dataset.columns
     /\ Len(dataset'.data) = Len(dataset.data)
     /\ Len(localData') = Len(localData)
     /\ Cardinality(ChangedRows(dataset.data, dataset'.data)) <= 1
     /\ \A i \in ChangedRows(dataset.data, dataset'.data) :
          /\ DOMAIN dataset'.data[i] = DOMAIN dataset.data[i]
          /\ Cardinality({key \in DOMAIN dataset.data[i] :
                            dataset'.data[i][key] # dataset.data[i][key]}) = 1]_vars

\* on the second page of the eleven distinct rows the text "7" has been
\* committed to column a of the last row: name, columns and the ten rows
\* before it are the loaded ones and the last row keeps its b
C34_Witness ==
  /\ nChanges = 1
  /\ currentPage = 2
  /\ dataset.name = "distinct"
  /\ dataset.columns = <<"a", "b">>
  /\ Len(dataset.data) = MaxPageRows
  /\ \A i \in 1..ROWS_PER_PAGE : dataset.data[i] = Row3(X, Num(i), Undefined)
  /\ dataset.data[MaxPageRows] = Row3(Str(<<"7">>), Num(MaxPageRows), Undefined)

(***************************************************************************)
(* The insight request on its own: the dashboard with datasets that hold   *)
(* more ordinary rows than a prompt takes, and handleGeminiAnalysis called *)
(* as a function of the mounted component, whatever part of it is shown.   *)
(***************************************************************************)
\* two rows more than the normal sample holds
MaxInsightRows == NormalSampleSize + 2
\* the calls to the model outstanding at one time
MaxCalls == 1

\* a is 1 but for the third row; b counts the rows.  At the default
\* threshold the third row alone is flagged and eleven rows are ordinary; at
\* the slider's minimum the first and the last row are flagged as well on b
\* and nine are ordinary.
TwelveRows ==
  [name |-> "twelve", columns |-> <<"a", "b">>,
   data |-> [i \in 1..MaxInsightRows |->
               Row3(Num(IF i = 3 THEN 100 ELSE 1), Num(i), Undefined)]]

InsightDatasets == {TwelveRows, TwoNumeric, NoNumeric, NoRows}

InitInsight ==
  /\ dataset \in InsightDatasets
  /\ xKey = InitialX(numericColumns(dataset))
  /\ yKey = InitialY(numericColumns(dataset))
  /\ threshold = DefaultThreshold
  /\ analysisResult = NoResult
  /\ aiInsight = NoInsight
  /\ aiLoading = FALSE
  /\ activeTab = "analysis"
  /\ pendingEffects = {"repair", "analysis"}
  /\ apiKey \in BOOLEAN
  /\ inflight = <<>>
  /\ localData = <<>>
  /\ editingCell = NoCell
  /\ editValue = <<>>
  /\ currentPage = 1
  /\ searchTerm = <<>>
  /\ nChanges = 0

\* handleGeminiAnalysis called once the effects of the last render have run
InvokeInsightHandler ==
  /\ Quiescent
  /\ Len(inflight) < MaxCalls
  /\ handleGeminiAnalysis

NextInsight ==
  \/ RunEffects
  \/ \E key \in Keys : SetXKey(key)
  \/ \E key \in Keys : SetYKey(key)
  \/ \E t \in ThresholdChoices : SetThreshold(t)
  \/ InvokeInsightHandler
  \/ \E i \in 1..Len(inflight) : \E outcome \in Outcomes : ResumeHandler(i, outcome)
  \/ ClearAnalysis
  \/ \E ds \in InsightDatasets : ReplaceDataset(ds)

SpecInsight == InitInsight /\ [][NextInsight]_vars

\* A flush of the effects, told by what it does to pendingEffects alone:
\* RunEffects is the only step taken while effects are pending, and it leaves
\* none pending or the analysis effect alone.
EffectsFlushed ==
  /\ pendingEffects # {}
  /\ pendingEffects' \in {{}, {"analysis"}}

\* React runs the effects of a render, so a flush that is due is taken.
\* Nothing in the program bounds the time the model takes to answer, so no
\* fairness is stated for the handler's resumption.
SpecInsightFair == SpecInsight /\ WF_pendingEffects(EffectsFlushed)

(***************************************************************************)
(* Claims about the insight request (checked under SpecInsight)            *)
(***************************************************************************)
\* a step in which a call to the model starts
CallStarts == Len(inflight') = Len(inflight) + 1

\* the positions (from 1) of the rows whose 0-based index is not recorded
OrdinaryPositions(data, indices) ==
  {pos \in 1..Len(data) : \A j \in 1..Len(indices) : indices[j] # pos - 1}

\* the k-th smallest member of a set of positions
Smallest(positions, k) ==
  CHOOSE pos \in positions : Cardinality({q \in positions : q < pos}) = k - 1

\* C27: the prompt of a call that starts is built from the column names, the
\* current xKey and yKey, one entry per recorded outlier index of the current
\* result, in the order recorded, holding the current row at that index, and
\* the first ten of the current rows at no recorded index, in row order, or
\* all of them when there are fewer than ten.
C27_PayloadBounded ==
  [][CallStarts =>
       LET payload == inflight'[Len(inflight')]
           data == dataset.data
           indices == analysisResult.outlierIndices
           ordinary == OrdinaryPositions(data, indices)
           taken == IF Cardinality(ordinary) < 10 THEN Cardinality(ordinary) ELSE 10
       IN /\ payload.columns = dataset.columns
          /\ payload.xAxis = xKey /\ payload.yAxis = yKey
          /\ Len(payload.outliers) = Len(indices)
          /\ \A j \in 1..Len(indices) :
                indices[j] < Len(data) => payload.outliers[j] = data[indices[j] + 1]
          /\ Len(payload.normalSample) = taken
          /\ \A k \in 1..taken : payload.normalSample[k] = data[Smallest(ordinary, k)]]_vars

\* a call is outstanding whose prompt holds the third of twelve rows as its
\* one outlier and ten of the eleven other rows: the first, the second, the
\* fourth and so on up to the eleventh
C27_Witness ==
  /\ dataset = TwelveRows
  /\ Len(inflight) = 1
  /\ inflight[1].outliers = <<TwelveRows.data[3]>>
  /\ inflight[1].normalSample =
       [k \in 1..NormalSampleSize |-> TwelveRows.data[IF k < 3 THEN k ELSE k + 1]]
  /\ inflight[1].xAxis = "a" /\ inflight[1].yAxis = "b"

\* a step that changes an input of the analysis or runs the effects
InputsChange ==
  \/ dataset' # dataset \/ xKey' # xKey \/ yKey' # yKey \/ threshold' # threshold
  \/ pendingEffects' # pendingEffects

\* a step in which no call starts and aiLoading is not set
NoCallStarts == Len(inflight') <= Len(inflight) /\ (aiLoading' => aiLoading)

\* a step of which an input change has been processed
ChangeProcessed == "analysis" \in pendingEffects /\ pendingEffects' = {}

\* a call starts only in a step that changes no input and runs no effect,
\* taken with a scored result; and no step from a state without a scored
\* result starts a call, sets aiLoading or touches the insight
OnlyOnRequest ==
  /\ InputsChange => NoCallStarts
  /\ ~NoCallStarts => analysisResult.present
  /\ ~analysisResult.present =>
       (inflight' = inflight /\ aiLoading' = aiLoading /\ aiInsight' = aiInsight)

C28_RequestEnds == aiLoading ~> (~aiLoading /\ aiInsight.present)

(***************************************************************************)
(* The numeric columns on their own: the dashboard with every dataset of   *)
(* up to two rows over a number, null and a text in the columns a and b,   *)
(* rendered and replaced once.                                             *)
(***************************************************************************)
MaxColumnRows == 2
ColumnValues == {Num(1), Null, X}
ColumnRows == {Row3(a, b, Undefined) : a, b \in ColumnValues}
ColumnDatasets ==
  {[name |-> "columns", columns |-> <<"a", "b">>, data |-> d] :
     d \in UNION {[1..n -> ColumnRows] : n \in 0..MaxColumnRows}}

InitColumns ==
  /\ dataset \in ColumnDatasets
  /\ xKey = InitialX(numericColumns(dataset))
  /\ yKey = InitialY(numericColumns(dataset))
  /\ threshold = DefaultThreshold
  /\ analysisResult = NoResult
  /\ aiInsight = NoInsight
  /\ aiLoading = FALSE
  /\ activeTab = "analysis"
  /\ pendingEffects = {"repair", "analysis"}
  /\ apiKey = TRUE
  /\ inflight = <<>>
  /\ localData = <<>>
  /\ editingCell = NoCell
  /\ editValue = <<>>
  /\ currentPage = 1
  /\ searchTerm = <<>>
  /\ nChanges = 0

NextColumns ==
  \/ RunEffects
  \/ \E ds \in ColumnDatasets : ReplaceDataset(ds)

SpecColumns == InitColumns /\ [][NextColumns]_vars

(***************************************************************************)
(* Claims about the numeric columns (checked under SpecColumns)            *)
(***************************************************************************)
\* the first value of a column that is neither null nor absent, scanning the
\* rows in order, is a number
FirstValueNumeric(data, key) ==
  \E i \in 1..Len(data) :
    /\ typeof(Get(data[i], key)) = "number"
    /\ \A j \in 1..(i - 1) : Get(data[j], key) \in {Null, Undefined}

\* the value of a column in the first row is a number
FirstRowNumeric(data, key) ==
  Len(data) > 0 /\ typeof(Get(data[1], key)) = "number"

\* once the effects have run, selected axes are numeric columns of the
\* current dataset whenever it has any; without rows it has none
SubsetFollowsDataset ==
  /\ (Quiescent /\ numericColumns(dataset) # <<>>) =>
       (Includes(numericColumns(dataset), xKey) /\ Includes(numericColumns(dataset), yKey))
  /\ dataset.data = <<>> => numericColumns(dataset) = <<>>

\* C31 as stated: a column is a numeric column exactly when the first value
\* of the column that is not null, scanning the rows in order, is a number;
\* the subset is that of the current dataset and is empty without rows.
C31_FirstNonNullValue ==
  /\ \A c \in 1..Len(dataset.columns) :
       Includes(numericColumns(dataset), dataset.columns[c])
         <=> FirstValueNumeric(dataset.data, dataset.columns[c])
  /\ SubsetFollowsDataset

\* C31 amended: a column is a numeric column exactly when its value in the
\* first row is a number, whatever the later rows hold; the columns keep the
\* order of the column list.
C31_FirstRowValue ==
  /\ \A c \in 1..Len(dataset.columns) :
       Includes(numericColumns(dataset), dataset.columns[c])
         <=> FirstRowNumeric(dataset.data, dataset.columns[c])
  /\ \A c \in {"a", "b"} : Cardinality({i \in 1..Len(numericColumns(dataset)) :
                                           numericColumns(dataset)[i] = c}) <= 1
  /\ SubsetFollowsDataset

\* the dataset has been replaced by one whose column a holds null in the
\* first row and a number in the second; the effects have run and both
\* axes are b, the only numeric column
C31_Witness ==
  /\ nChanges = 1
  /\ Quiescent
  /\ dataset.data = <<Row3(Null, Num(1), Undefined), Row3(Num(1), Num(1), Undefined)>>
  /\ numericColumns(dataset) = <<"b">>
  /\ xKey = "b" /\ yKey = "b"

(***************************************************************************)
(* detectOutliers on a constant column, computed with doubles: every row   *)
(* holds the same number under a and its row number under b.               *)
(***************************************************************************)
MaxDoubleRows == 3
\* 0.1, 0.2, 0.3, 0.7, 1.1, 1 and 5
DoubleCells ==
  {Decimal(1, 10), Decimal(2, 10), Decimal(3, 10), Decimal(7, 10), Decimal(11, 10),
   DoubleOf(1), DoubleOf(5)}
DoubleData ==
  {[i \in 1..n |-> [a |-> NumDouble(c), b |-> NumDouble(DoubleOf(i))]] :
     c \in DoubleCells, n \in 1..MaxDoubleRows}
\* thresholds in tenths: one below the slider's range and three within it
DoubleThresholds == {5, SliderMin, DefaultThreshold, SliderMax}

InitDouble ==
  /\ dataset \in {[name |-> "rows", columns |-> <<"a", "b">>, data |-> d] : d \in DoubleData}
  /\ xKey = "a"
  /\ yKey = "b"
  /\ threshold = DefaultThreshold
  /\ analysisResult = NoResult
  /\ aiInsight = NoInsight
  /\ aiLoading = FALSE
  /\ activeTab = "analysis"
  /\ pendingEffects = {}
  /\ apiKey = TRUE
  /\ inflight = <<>>
  /\ localData = <<>>
  /\ editingCell = NoCell
  /\ editValue = <<>>
  /\ currentPage = 1
  /\ searchTerm = <<>>
  /\ nChanges = 0

\* one call detectOutliers(dataset.data, xKey, yKey, t)
DoubleCall(t) ==
  /\ ~analysisResult.present
  /\ threshold' = t
  /\ analysisResult' = Result(detectOutliersDouble(dataset.data, xKey, yKey, t))
  /\ UNCHANGED <<dataset, xKey, yKey, aiInsight, aiLoading, activeTab, pendingEffects,
                 serviceVars, editorVars, countVars>>

NextDouble == \E t \in DoubleThresholds : DoubleCall(t)

SpecDouble == InitDouble /\ [][NextDouble]_vars

(***************************************************************************)
(* Claims about constant columns (checked under SpecDouble)                *)
(***************************************************************************)
\* C11: when every row holds the same number other than 0 under the x field,
\* calculateStats gives that field the standard deviation 0, every row gets
\* the z-score 0 on that axis, whatever the threshold, and a row is flagged
\* exactly when the test of line 50 flags it with 0 for the x score, that is,
\* by its other axis alone.
C11_ConstantColumn ==
  analysisResult.present =>
    /\ calculateStatsDouble(dataset.data, xKey).stdDev = DoubleZero
    /\ \A i \in 1..Len(dataset.data) :
         /\ analysisResult.processedData[i].zScoreX = DoubleZero
         /\ analysisResult.processedData[i].isOutlier
              = IsOutlierDouble(DoubleZero, analysisResult.processedData[i].zScoreY, threshold)
====
